---- MODULE Spec2Model ----
(***************************************************************************)
(* Model of the structural scanner of codebaseGeniusX                      *)
(* (src/utils/parser.py, class CodeParser) and of the two places that      *)
(* construct scanner instances (src/abilities.py, src/jac_orchestrator.py).*)
(*                                                                         *)
(* Text (paths, identifiers, manifest lines) is a sequence of              *)
(* one-character strings, so that the substring tests and replacements of  *)
(* the source are computed character by character.                         *)
(***************************************************************************)
EXTENDS Integers, Sequences, FiniteSets, TLC

VARIABLES
    heap,       \* the language_stats dict objects ever allocated
    instRef,    \* instance -> index in heap of its self.language_stats
    hashSeed,   \* the string-hash seed of the running interpreter
    scan,       \* slot -> the frame of a running build_code_context_graph
    returned,   \* the CCGs handed back to callers, in order of return
    raised,     \* the scans that ended by raising to the caller
    started,    \* number of scans started so far
    restarts,   \* number of interpreter restarts so far
    probe,      \* the file of the generated one-file repository
    workdir,    \* the generated repository around it: root path and manifests
    call,       \* the last direct call of _should_skip_file and its result
    wf          \* the Python workflow: its position, the outputs directory, its runs

vars == <<heap, instRef, hashSeed, scan, returned, raised, started, restarts, probe,
          workdir, call, wf>>

-----------------------------------------------------------------------------
(* Bounds *)

MaxScans == 2
MaxRestarts == 1
MaxDecls == 2
MaxEntries == 2
MaxLines == 2
MaxDepth == 2
MaxWorkflows == 3

-----------------------------------------------------------------------------
(* Text helpers: Python str operations on sequences of characters *)

StartsWith(s, p) == Len(s) >= Len(p) /\ SubSeq(s, 1, Len(p)) = p

EndsWith(s, p) == Len(s) >= Len(p) /\ SubSeq(s, Len(s) - Len(p) + 1, Len(s)) = p

\* Python: p in s
Contains(s, p) == \E i \in 1..(Len(s) - Len(p) + 1) : SubSeq(s, i, i + Len(p) - 1) = p

\* index of the first occurrence of p in s, 0 when there is none
FirstIndex(s, p) ==
    IF Contains(s, p)
    THEN CHOOSE i \in 1..(Len(s) - Len(p) + 1) :
            /\ SubSeq(s, i, i + Len(p) - 1) = p
            /\ \A j \in 1..(i - 1) : SubSeq(s, j, j + Len(p) - 1) # p
    ELSE 0

\* Python: s.replace(old, new), every non-overlapping occurrence, left to right
RECURSIVE Replace(_, _, _)
Replace(s, old, new) ==
    IF Len(s) < Len(old) THEN s
    ELSE IF SubSeq(s, 1, Len(old)) = old
         THEN new \o Replace(SubSeq(s, Len(old) + 1, Len(s)), old, new)
         ELSE <<Head(s)>> \o Replace(Tail(s), old, new)

WhiteSpace == {" ", "\t", "\n", "\r"}

RECURSIVE LStrip(_)
LStrip(s) == IF s # <<>> /\ Head(s) \in WhiteSpace THEN LStrip(Tail(s)) ELSE s

RECURSIVE RStrip(_)
RStrip(s) ==
    IF s # <<>> /\ s[Len(s)] \in WhiteSpace THEN RStrip(SubSeq(s, 1, Len(s) - 1)) ELSE s

\* Python: s.strip()
Strip(s) == RStrip(LStrip(s))

\* Python: s.split(sep), sep one character
RECURSIVE Split(_, _)
Split(s, sep) ==
    LET i == FirstIndex(s, <<sep>>) IN
    IF i = 0 THEN <<s>>
    ELSE <<SubSeq(s, 1, i - 1)>> \o Split(SubSeq(s, i + 1, Len(s)), sep)

UpperChars ==
    {"A", "B", "C", "D", "E", "F", "G", "H", "I", "J", "K", "L", "M",
     "N", "O", "P", "Q", "R", "S", "T", "U", "V", "W", "X", "Y", "Z"}

\* Python: comp_name and comp_name[0].isupper()
IsUpperName(name) == name # <<>> /\ name[1] \in UpperChars

-----------------------------------------------------------------------------
(* Paths *)

\* str(repo_path_obj / rel): pathlib drops a root of "." and joins with "/"
FullPath(root, rel) == IF root = <<>> THEN rel ELSE root \o <<"/">> \o rel

\* Path.name: the final path component
RECURSIVE BaseName(_)
BaseName(p) ==
    LET i == FirstIndex(p, <<"/">>) IN
    IF i = 0 THEN p ELSE BaseName(SubSeq(p, i + 1, Len(p)))

RECURSIVE LStripDots(_)
LStripDots(s) == IF s # <<>> /\ Head(s) = "." THEN LStripDots(Tail(s)) ELSE s

\* Path.suffixes of pathlib
Suffixes(p) ==
    LET name == BaseName(p) IN
    IF EndsWith(name, <<".">>) THEN <<>>
    ELSE LET parts == Split(LStripDots(name), ".") IN
         [i \in 1..(Len(parts) - 1) |-> <<".">> \o parts[i + 1]]

\* variant: every pattern is the bare name
skip_patterns_Bare ==
    { <<"_","_","p","y","c","a","c","h","e","_","_">>,
      <<"v","e","n","v">>,
      <<".","v","e","n","v">>,
      <<".","g","i","t">>,
      <<"d","i","s","t">>,
      <<"b","u","i","l","d">>,
      <<"n","o","d","e","_","m","o","d","u","l","e","s">> }

skip_patterns ==
    { <<"_","_","p","y","c","a","c","h","e","_","_">>,
      <<"/","v","e","n","v","/">>,
      <<"/",".","v","e","n","v","/">>,
      <<"/","n","o","d","e","_","m","o","d","u","l","e","s","/">>,
      <<"/",".","g","i","t","/">>,
      <<"/","d","i","s","t","/">>,
      <<"/","b","u","i","l","d","/">>,
      <<"n","o","d","e","_","m","o","d","u","l","e","s">> }

\* variant: the version-control test is a test for the characters ".git"
_should_skip_file_GitAnywhere(path_str) ==
    \/ Contains(path_str, <<".","g","i","t">>)
    \/ \E pattern \in skip_patterns : Contains(path_str, pattern)

_should_skip_file(path_str) ==
    \/ Contains(path_str, <<"/",".","g","i","t","/">>)
    \/ EndsWith(path_str, <<"/",".","g","i","t">>)
    \/ \E pattern \in skip_patterns : Contains(path_str, pattern)

ModuleIdPy(rel_path) ==
    Replace(Replace(rel_path, <<"/">>, <<"_">>), <<".","p","y">>, <<>>)

ModuleIdJs(rel_path) ==
    Replace(Replace(Replace(rel_path, <<"/">>, <<"_">>),
                    <<".","j","s">>, <<>>),
            <<".","j","s","x">>, <<>>)

ModuleIdTs(rel_path) ==
    Replace(Replace(Replace(rel_path, <<"/">>, <<"_">>),
                    <<".","t","s">>, <<>>),
            <<".","t","s","x">>, <<>>)

-----------------------------------------------------------------------------
(* Extracted values *)

\* variant: the id of a Node is its bare name
Node_BareId(module_id, type, name) ==
    [id |-> name, type |-> type, name |-> name, module |-> module_id]

Node(module_id, type, name) ==
    [id |-> module_id \o <<".">> \o name, type |-> type, name |-> name,
     module |-> module_id]

RECURSIVE DropRepeats(_)
DropRepeats(names) ==
    IF names = <<>> THEN <<>>
    ELSE LET rest == DropRepeats(SubSeq(names, 1, Len(names) - 1)) IN
         IF names[Len(names)] \in {rest[i] : i \in 1..Len(rest)}
         THEN rest ELSE Append(rest, names[Len(names)])

\* variant: a name that was already collected is not collected again
NodesOf_Dedup(module_id, type, names) ==
    [i \in 1..Len(DropRepeats(names)) |-> Node(module_id, type, DropRepeats(names)[i])]

NodesOf(module_id, type, names) ==
    [i \in 1..Len(names) |-> Node(module_id, type, names[i])]

\* outcomes of a per-file extractor: it raises, returns None, or returns a dict
Raise == [status |-> "raise"]
None == [status |-> "none"]
ModuleData(data) == [status |-> "module", data |-> data]

-----------------------------------------------------------------------------
(* Python files.  The content of a readable, parseable file is its syntax  *)
(* tree reduced to the definitions: a sequence of top-level definitions,   *)
(* each [kind, name, body] with body the definitions nested directly in it.*)

PyKinds == {"ClassDef", "FunctionDef", "AsyncFunctionDef"}

\* ast.walk: breadth-first, a deque of nodes still to visit
RECURSIVE walk(_)
walk(todo) ==
    IF todo = <<>> THEN <<>>
    ELSE <<Head(todo)>> \o walk(Tail(todo) \o Head(todo).body)

WalkNames(tree, kind) ==
    LET sel == SelectSeq(walk(tree), LAMBDA n : n.kind = kind)
    IN  [i \in 1..Len(sel) |-> sel[i].name]

\* variant: like the pattern-based extractors, nothing is returned for a
\* file without classes and functions
_parse_python_file_OnlyIfFound(file) ==
    LET rel_path == file.path
        module_id == ModuleIdPy(rel_path)
        classes == NodesOf(module_id, "class", WalkNames(file.tree, "ClassDef"))
        functions == NodesOf(module_id, "function", WalkNames(file.tree, "FunctionDef"))
    IN  IF file.read # "ok" \/ ~file.syntax_ok THEN Raise
        ELSE IF classes = <<>> /\ functions = <<>> THEN None
        ELSE ModuleData([id |-> module_id, path |-> rel_path,
                         classes |-> classes, functions |-> functions])

_parse_python_file(file) ==
    LET rel_path == file.path
        module_id == ModuleIdPy(rel_path)
    IN  IF file.read # "ok" THEN Raise            \* open()/read() raises
        ELSE IF ~file.syntax_ok THEN Raise        \* ast.parse raises
        ELSE ModuleData(
               [id |-> module_id,
                path |-> rel_path,
                classes |-> NodesOf(module_id, "class", WalkNames(file.tree, "ClassDef")),
                functions |-> NodesOf(module_id, "function",
                                      WalkNames(file.tree, "FunctionDef"))])

-----------------------------------------------------------------------------
(* JavaScript / TypeScript files.  The content is a sequence of statements,*)
(* one per line, each [form, name]; the forms are:                         *)
(*   Func               function N(a) {                                    *)
(*   GenericFunc        function N<T>(a: T) {                              *)
(*   ArrowParenBlock    const N = (a) => {                                 *)
(*   LetArrowParenBlock let N = (a) => {                                   *)
(*   ArrowParenExpr     const N = (a) => a + 1;                            *)
(*   ArrowBareBlock     const N = a => {                                   *)
(*   ArrowDefaultBlock  const N = (a = 1) => {                             *)
(*   FCArrow            const N: React.FC<P> = (p) => {                    *)
(*   FCArrowExpr        const N: React.FC<P> = (p) => <div/>;              *)
(*   Class              class N {                                          *)
(*   ExportClass        export class N {                                   *)
(*   ExportConst        export const N = 1;                                *)
(*   Import             import x from 'N';                                 *)
(* Each regular expression of the source is the set of forms it matches;   *)
(* re.findall returns the captured names in text order.                    *)

Forms ==
    {"Func", "GenericFunc", "ArrowParenBlock", "LetArrowParenBlock",
     "ArrowParenExpr", "ArrowBareBlock", "ArrowDefaultBlock", "FCArrow",
     "FCArrowExpr", "Class", "ExportClass", "ExportConst", "Import"}

import_pattern == {"Import"}
export_pattern == {"ExportClass", "ExportConst"}
class_pattern == {"Class", "ExportClass"}
js_func_pattern == {"Func"}
js_arrow_pattern ==
    {"ArrowParenBlock", "LetArrowParenBlock", "ArrowParenExpr", "ArrowDefaultBlock"}
react_component_pattern ==
    {"ArrowParenBlock", "ArrowBareBlock", "ArrowDefaultBlock", "FCArrow"}
ts_func_pattern == {"Func", "GenericFunc"}
\* variant: a default value in the parameter list does not stop the match
ts_arrow_pattern_Defaults ==
    {"ArrowParenBlock", "LetArrowParenBlock", "ArrowBareBlock", "ArrowDefaultBlock"}

ts_arrow_pattern == {"ArrowParenBlock", "LetArrowParenBlock", "ArrowBareBlock"}
\* variant: the type-annotation pattern finds nothing
react_component_pattern1_None == {}

react_component_pattern1 == {"FCArrow", "FCArrowExpr"}
react_component_pattern2 == react_component_pattern

\* re.findall(pattern, content)
findall(pattern, content) ==
    LET sel == SelectSeq(content, LAMBDA d : d.form \in pattern)
    IN  [i \in 1..Len(sel) |-> sel[i].name]

Range(seq) == {seq[i] : i \in 1..Len(seq)}

\* variant: the "only return if we found something" test is missing
_parse_javascript_file_Always(file) ==
    LET rel_path == file.path
        module_id == ModuleIdJs(rel_path)
        content == file.decls
    IN  IF file.read # "ok" THEN None
        ELSE ModuleData(
               [id |-> module_id,
                path |-> rel_path,
                language |-> "javascript",
                classes |-> NodesOf(module_id, "class", findall(class_pattern, content)),
                functions |-> NodesOf(module_id, "function",
                                      findall(js_func_pattern, content)
                                      \o findall(js_arrow_pattern, content)),
                components |-> NodesOf(module_id, "component",
                                       SelectSeq(findall(react_component_pattern, content),
                                                 IsUpperName)),
                imports |-> findall(import_pattern, content),
                exports |-> findall(export_pattern, content)])

_parse_javascript_file(file) ==
    LET rel_path == file.path
        module_id == ModuleIdJs(rel_path)
        content == file.decls
        imports == findall(import_pattern, content)
        exports == findall(export_pattern, content)
        functions == NodesOf(module_id, "function",
                             findall(js_func_pattern, content)
                             \o findall(js_arrow_pattern, content))
        classes == NodesOf(module_id, "class", findall(class_pattern, content))
        components == NodesOf(module_id, "component",
                              SelectSeq(findall(react_component_pattern, content),
                                        IsUpperName))
    IN  IF file.read # "ok" THEN None             \* read error is caught inside
        ELSE IF functions = <<>> /\ classes = <<>> /\ components = <<>> THEN None
        ELSE ModuleData(
               [id |-> module_id,
                path |-> rel_path,
                language |-> "javascript",
                classes |-> classes,
                functions |-> functions,
                components |-> components,
                imports |-> imports,
                exports |-> exports])

\* The names every identifier of a file is drawn from, and their rank in
\* the iteration order of a set of strings under hash seed 0.
Names == << <<"A","p","p">>, <<"B","t","n">>, <<"r","u","n">> >>

Rank(name) == CHOOSE i \in 1..Len(Names) : Names[i] = name

HashSeeds == {0, 1}

\* iteration order of set(S): fixed by the interpreter's string hashes,
\* which differ from one interpreter start to the next
RECURSIVE SetIter(_, _)
SetIter(seed, S) ==
    IF S = {} THEN <<>>
    ELSE LET x == CHOOSE x \in S : \A y \in S :
                     IF seed = 0 THEN Rank(x) <= Rank(y) ELSE Rank(x) >= Rank(y)
         IN  <<x>> \o SetIter(seed, S \ {x})

\* variant: the uppercase test on the first letter is missing
TsComponents_NoCaseTest(seed, content) ==
    SetIter(seed, Range(findall(react_component_pattern1, content)
                        \o findall(react_component_pattern2, content)))

TsComponents(seed, content) ==
    LET components_found1 == findall(react_component_pattern1, content)
        components_found2 == findall(react_component_pattern2, content)
        all_components == Range(components_found1 \o components_found2)
    IN  SelectSeq(SetIter(seed, all_components), IsUpperName)

_parse_typescript_file(seed, file) ==
    LET rel_path == file.path
        module_id == ModuleIdTs(rel_path)
        content == file.decls
        imports == findall(import_pattern, content)
        exports == findall(export_pattern, content)
        functions == NodesOf(module_id, "function",
                             findall(ts_func_pattern, content)
                             \o findall(ts_arrow_pattern, content))
        classes == NodesOf(module_id, "class", findall(class_pattern, content))
        components == NodesOf(module_id, "component", TsComponents(seed, content))
    IN  IF file.read # "ok" THEN None
        ELSE IF functions = <<>> /\ classes = <<>> /\ components = <<>> THEN None
        ELSE ModuleData(
               [id |-> module_id,
                path |-> rel_path,
                language |-> "typescript",
                classes |-> classes,
                functions |-> functions,
                components |-> components,
                imports |-> imports,
                exports |-> exports])

-----------------------------------------------------------------------------
(* Dependency manifests *)

Dependency(name, version, type) == [name |-> name, version |-> version, type |-> type]

\* package.json: pj.state is "absent", "malformed" (json.load raises) or
\* "ok"; pj.deps / pj.devDeps are the declared (name, version) pairs in
\* order; pj.dev_is_map is FALSE when "devDependencies" is not an object,
\* so that dev_deps.items() raises after the production entries were added.
PackageJsonDeps(pj) ==
    IF pj.state # "ok" THEN <<>>
    ELSE [i \in 1..Len(pj.deps) |->
            Dependency(pj.deps[i][1], pj.deps[i][2], "dependency")]
         \o (IF pj.dev_is_map
             THEN [i \in 1..Len(pj.devDeps) |->
                     Dependency(pj.devDeps[i][1], pj.devDeps[i][2], "devDependency")]
             ELSE <<>>)

\* variant: name and version are taken as they stand around the "=="
RequirementOf_Untrimmed(raw) ==
    LET line == Strip(raw)
        i == FirstIndex(line, <<"=","=">>)
    IN  IF line = <<>> \/ StartsWith(line, <<"#">>) THEN <<>>
        ELSE IF i # 0
             THEN << Dependency(SubSeq(line, 1, i - 1),
                                SubSeq(line, i + 2, Len(line)),
                                "dependency") >>
             ELSE << Dependency(line, <<"l","a","t","e","s","t">>, "dependency") >>

RequirementOf(raw) ==
    LET line == Strip(raw)
        eq == <<"=","=">>
        i == FirstIndex(line, eq)
    IN  IF line = <<>> \/ StartsWith(line, <<"#">>) THEN <<>>
        ELSE IF i # 0
             THEN << Dependency(Strip(SubSeq(line, 1, i - 1)),
                                Strip(SubSeq(line, i + 2, Len(line))),
                                "dependency") >>
             ELSE << Dependency(line, <<"l","a","t","e","s","t">>, "dependency") >>

RECURSIVE RequirementLines(_)
RequirementLines(lines) ==
    IF lines = <<>> THEN <<>>
    ELSE RequirementOf(Head(lines)) \o RequirementLines(Tail(lines))

\* requirements.txt: rq.state is "absent" or "ok"; rq.fail_at = k > 0 means
\* that reading raises when line k is fetched (k = 1: open() itself raises),
\* after the lines before it were handled; 0 means the file reads to its end.
RequirementsDeps(rq) ==
    IF rq.state # "ok" THEN <<>>
    ELSE IF rq.fail_at = 0 THEN RequirementLines(rq.lines)
    ELSE RequirementLines(SubSeq(rq.lines, 1, rq.fail_at - 1))

\* root state "ok": manifests are looked up and read; "missing": exists() is
\* False for both; "noread": the directory cannot be listed but its entries
\* can be stat'ed and opened
_extract_dependencies(repo) ==
    IF repo.root_state = "missing" THEN <<>>
    ELSE PackageJsonDeps(repo.package_json) \o RequirementsDeps(repo.requirements)

\* Path.exists() raises PermissionError on a root without search permission
ExtractDependenciesRaises(repo) == repo.root_state = "nosearch"

-----------------------------------------------------------------------------
(* Files and repositories *)

Def(kind, name, body) == [kind |-> kind, name |-> name, body |-> body]
Decl(form, name) == [form |-> form, name |-> name]

File(path, read, syntax_ok, tree, decls) ==
    [path |-> path, read |-> read, syntax_ok |-> syntax_ok, tree |-> tree, decls |-> decls]

PyFile(path, tree) == File(path, "ok", TRUE, tree, <<>>)
JsFile(path, decls) == File(path, "ok", TRUE, <<>>, decls)

App == Names[1]
Btn == Names[2]
run == Names[3]

NoPackageJson == [state |-> "absent", deps |-> <<>>, devDeps |-> <<>>, dev_is_map |-> TRUE]
NoRequirements == [state |-> "absent", lines |-> <<>>, fail_at |-> 0]

Flask == <<"f","l","a","s","k">>
Latest == <<"l","a","t","e","s","t">>

PyRequirements ==
    [state |-> "ok",
     lines |-> << Flask, <<"r","q","=","=","2",".","1">>, <<"#"," ","c">>, <<>> >>,
     fail_at |-> 0]

JsPackageJson ==
    [state |-> "ok",
     deps |-> << << <<"r","e","a","c","t">>, <<"^","1","8">> >> >>,
     devDeps |-> << << <<"j","e","s","t">>, <<"2","9">> >> >>,
     dev_is_map |-> TRUE]

\* a Python repository under root "r"
PyRepoFiles ==
    << PyFile(<<"a",".","p","y">>,
              << Def("ClassDef", App, << Def("FunctionDef", run, <<>>) >>),
                 Def("FunctionDef", run, <<>>),
                 Def("AsyncFunctionDef", Btn, <<>>) >>),
       PyFile(<<"e",".","p","y">>, <<>>),
       File(<<"b","a","d",".","p","y">>, "ok", FALSE, <<>>, <<>>),
       PyFile(<<"_","_","p","y","c","a","c","h","e","_","_","/","c",".","p","y">>,
              << Def("FunctionDef", run, <<>>) >>),
       PyFile(<<"b","u","i","l","d","/","b",".","p","y">>,
              << Def("ClassDef", Btn, <<>>) >>) >>

\* a JavaScript repository under root "."
JsRepoFiles ==
    << JsFile(<<"s","/","A","p","p",".","j","s","x">>,
              << Decl("ArrowParenBlock", App), Decl("ArrowParenBlock", run),
                 Decl("ArrowParenBlock", run), Decl("Import", Btn) >>),
       JsFile(<<"u",".","j","s">>, << Decl("Import", App), Decl("ExportConst", run) >>),
       JsFile(<<"n","o","d","e","_","m","o","d","u","l","e","s","/","m",".","j","s">>,
              << Decl("Func", run) >>),
       File(<<"k",".","j","s">>, "unreadable", TRUE, <<>>, << Decl("Func", run) >>),
       JsFile(<<"w",".","j","s">>, << Decl("ArrowBareBlock", run) >>),
       JsFile(<<"b","u","i","l","d","/","b",".","j","s">>, << Decl("Class", Btn) >>) >>

\* a TypeScript repository under root "o/x"
TsRepoFiles ==
    << JsFile(<<"v",".","t","s","x">>,
              << Decl("ArrowParenBlock", Btn), Decl("FCArrow", App),
                 Decl("ArrowParenBlock", App), Decl("ArrowDefaultBlock", run) >>),
       JsFile(<<"t",".","d",".","t","s">>, << Decl("Func", run) >>),
       JsFile(<<"x",".","t","s">>, << Decl("ExportConst", App), Decl("Import", run) >>),
       File(<<"c",".","t","s">>, "unreadable", TRUE, <<>>, << Decl("Class", App) >>),
       JsFile(<<"g",".","t","s">>,
              << Decl("Class", App), Decl("Class", App), Decl("GenericFunc", run) >>),
       JsFile(<<"d","i","s","t","/","o",".","t","s">>, << Decl("Func", run) >>) >>

\* one file per language, all with module id "a"
MixedRepoFiles ==
    << PyFile(<<"a",".","p","y">>, << Def("FunctionDef", run, <<>>) >>),
       JsFile(<<"a",".","j","s">>, << Decl("Func", App) >>),
       JsFile(<<"a",".","t","s">>, << Decl("Class", Btn) >>) >>

\* one Python file with one class and one function, one requirement
ScenarioRepoFiles ==
    << PyFile(<<"m",".","p","y">>,
              << Def("ClassDef", App, <<>>), Def("FunctionDef", run, <<>>) >>) >>

OneRequirement == [state |-> "ok", lines |-> << Flask >>, fail_at |-> 0]

\* in every sweep a file that cannot be read (and in the Python sweep one
\* that does not parse), followed by a file that can
FaultyRepoFiles ==
    << File(<<"u",".","p","y">>, "unreadable", TRUE,
            << Def("ClassDef", App, <<>>) >>, <<>>),
       File(<<"b","a","d",".","p","y">>, "ok", FALSE, <<>>, <<>>),
       PyFile(<<"a",".","p","y">>,
              << Def("ClassDef", App, <<>>), Def("FunctionDef", run, <<>>) >>),
       File(<<"k",".","j","s">>, "unreadable", TRUE, <<>>, << Decl("Func", run) >>),
       JsFile(<<"b",".","j","s">>, << Decl("Func", run) >>),
       File(<<"k",".","j","s","x">>, "unreadable", TRUE, <<>>, << Decl("Class", App) >>),
       JsFile(<<"c",".","j","s","x">>, << Decl("ArrowParenBlock", App) >>),
       File(<<"c",".","t","s">>, "unreadable", TRUE, <<>>, << Decl("Class", App) >>),
       JsFile(<<"g",".","t","s">>, << Decl("Class", Btn) >>),
       File(<<"k",".","t","s","x">>, "unreadable", TRUE, <<>>, << Decl("FCArrow", App) >>),
       JsFile(<<"v",".","t","s","x">>, << Decl("FCArrow", App) >>) >>

Repo(root, root_state, files, package_json, requirements) ==
    [root |-> root, root_state |-> root_state, files |-> files,
     package_json |-> package_json, requirements |-> requirements]

Repos ==
    << Repo(<<"r">>, "ok", PyRepoFiles, NoPackageJson, PyRequirements),
       Repo(<<>>, "ok", JsRepoFiles, JsPackageJson, NoRequirements),
       Repo(<<"o","/","x">>, "ok", TsRepoFiles, NoPackageJson, NoRequirements),
       Repo(<<"m">>, "ok", MixedRepoFiles, JsPackageJson, PyRequirements),
       Repo(<<"n">>, "missing", <<>>, NoPackageJson, NoRequirements),
       Repo(<<"p">>, "noread", PyRepoFiles, NoPackageJson, PyRequirements),
       Repo(<<"q">>, "nosearch", PyRepoFiles, NoPackageJson, PyRequirements) >>

RepoIds == 1..Len(Repos)

\* a second catalogue, of repositories that are scanned by a scanner that
\* may or may not have scanned before; their ids follow those of Repos
Trees ==
    << Repo(<<"s">>, "ok", ScenarioRepoFiles, NoPackageJson, OneRequirement),
       Repo(<<"f">>, "ok", FaultyRepoFiles, NoPackageJson, NoRequirements),
       Repo(<<"o","/","x">>, "ok", TsRepoFiles, NoPackageJson, NoRequirements),
       Repo(<<"m">>, "ok", MixedRepoFiles, JsPackageJson, PyRequirements) >>

TreeIds == (Len(Repos) + 1)..(Len(Repos) + Len(Trees))

\* the generated repository when only its file varies: root "x", no manifest
DefaultWorkdir ==
    [root |-> <<"x">>, package_json |-> NoPackageJson, requirements |-> NoRequirements]

\* repository 0 is the generated one: the probe file in the generated directory
ProbeRepo(file) ==
    Repo(workdir.root, "ok", <<file>>, workdir.package_json, workdir.requirements)

RepoOf(r, file) ==
    IF r = 0 THEN ProbeRepo(file)
    ELSE IF r \in RepoIds THEN Repos[r]
    ELSE Trees[r - Len(Repos)]

-----------------------------------------------------------------------------
(* Scanner instances and scan frames *)

\* abilities.parser and JacOrchestrator().parser
Instances == <<"abilities", "orchestrator">>
InstanceSet == Range(Instances)

Langs == {"Python", "JavaScript", "TypeScript"}

\* a dict object without keys: a count of 0 is an absent key
EmptyStats == [l \in Langs |-> 0]

Slots == {1, 2}

Sweeps == <<"py", "js", "jsx", "ts", "tsx">>

Ext(sw) ==
    CASE sw = "py" -> <<".","p","y">>
      [] sw = "js" -> <<".","j","s">>
      [] sw = "jsx" -> <<".","j","s","x">>
      [] sw = "ts" -> <<".","t","s">>
      [] sw = "tsx" -> <<".","t","s","x">>

LangOf(sw) ==
    CASE sw = "py" -> "Python"
      [] sw \in {"js", "jsx"} -> "JavaScript"
      [] sw \in {"ts", "tsx"} -> "TypeScript"

\* variant: the .jsx loop runs after the .ts loop
NextSweep_JsxLate(sw) ==
    CASE sw = "py" -> "js"
      [] sw = "js" -> "ts"
      [] sw = "ts" -> "jsx"
      [] sw = "jsx" -> "tsx"
      [] sw = "tsx" -> "deps"

NextSweep(sw) ==
    CASE sw = "py" -> "js"
      [] sw = "js" -> "jsx"
      [] sw = "jsx" -> "ts"
      [] sw = "ts" -> "tsx"
      [] sw = "tsx" -> "deps"

\* repo_path_obj.rglob('*' + ext): the files of the tree whose name ends
\* with ext, in directory order; nothing when the root cannot be listed
rglob(repo, sw) ==
    IF repo.root_state = "ok"
    THEN SelectSeq(repo.files, LAMBDA f : EndsWith(f.path, Ext(sw)))
    ELSE <<>>

EmptyMap == [k \in {} |-> {}]

\* the dict built at the start of build_code_context_graph;
\* language_stats 0 is the fresh empty dict of the literal
NewGraph ==
    [nodes |-> <<>>, edges |-> <<>>, modules |-> EmptyMap,
     language_stats |-> 0, dependencies |-> <<>>]

Idle == [active |-> FALSE, inst |-> "none", repo |-> 0, pc |-> "idle", idx |-> 0,
         graph |-> NewGraph, log |-> <<>>]

\* the position of the next file to handle: exhausted loops fall through
RECURSIVE NextPos(_, _, _)
NextPos(repo, pc, idx) ==
    IF pc = "deps" THEN <<"deps", 0>>
    ELSE IF idx <= Len(rglob(repo, pc)) THEN <<pc, idx>>
    ELSE NextPos(repo, NextSweep(pc), 1)

CurFile(fr) == rglob(RepoOf(fr.repo, probe), fr.pc)[fr.idx]

\* variant: a file that cannot be read or parsed is registered as a Module
\* without symbols
Extract_FailureRegisters(sw, seed, file) ==
    IF file.read # "ok" \/ (sw = "py" /\ ~file.syntax_ok)
    THEN ModuleData([id |-> file.path, path |-> file.path,
                     classes |-> <<>>, functions |-> <<>>])
    ELSE CASE sw = "py" -> _parse_python_file(file)
           [] sw \in {"js", "jsx"} -> _parse_javascript_file(file)
           [] sw \in {"ts", "tsx"} -> _parse_typescript_file(seed, file)

\* the extractor each loop calls
Extract(sw, seed, file) ==
    CASE sw = "py" -> _parse_python_file(file)
      [] sw \in {"js", "jsx"} -> _parse_javascript_file(file)
      [] sw \in {"ts", "tsx"} -> _parse_typescript_file(seed, file)

\* variant: the .js loop lacks the _should_skip_file test
FileOutcome_NoSkipInJs(sw, repo, seed, file) ==
    IF sw # "js" /\ _should_skip_file(FullPath(repo.root, file.path))
    THEN [status |-> "skipped"]
    ELSE IF sw = "ts" /\ Suffixes(file.path) = << <<".","d">>, <<".","t","s">> >>
         THEN [status |-> "dts"]
         ELSE Extract(sw, seed, file)

\* the head of a loop body: the two "continue" tests, then the extractor
FileOutcome(sw, repo, seed, file) ==
    IF _should_skip_file(FullPath(repo.root, file.path)) THEN [status |-> "skipped"]
    ELSE IF sw = "ts" /\ Suffixes(file.path) = << <<".","d">>, <<".","t","s">> >>
         THEN [status |-> "dts"]
         ELSE Extract(sw, seed, file)

\* variant: the components of a module are not appended to the node list
GetComponents_Never(data) == <<>>

\* module_data.get('components', [])
GetComponents(data) == IF "components" \in DOMAIN data THEN data.components ELSE <<>>

\* variant: a key that is already in the map keeps its first value
Put_KeepFirst(map, key, value) ==
    [k \in (DOMAIN map) \cup {key} |-> IF k \in DOMAIN map THEN map[k] ELSE value]

\* modules[key] = value
Put(map, key, value) ==
    [k \in (DOMAIN map) \cup {key} |-> IF k = key THEN value ELSE map[k]]

\* variant: a "contains" edge is recorded for every Node of the module
Merge_WithEdges(graph, sw, data) ==
    LET added == data.classes \o data.functions
                 \o (IF sw = "py" THEN <<>> ELSE GetComponents(data))
    IN  [graph EXCEPT
            !.modules = Put(@, data.id, data),
            !.nodes = @ \o added,
            !.edges = @ \o [i \in 1..Len(added) |-> <<data.id, added[i].id>>]]

\* the body of "if module_data:" in the five loops
Merge(graph, sw, data) ==
    [graph EXCEPT
        !.modules = Put(@, data.id, data),
        !.nodes = @ \o data.classes \o data.functions
                    \o (IF sw = "py" THEN <<>> ELSE GetComponents(data))]

-----------------------------------------------------------------------------
(* Actions *)

NoProbe == File(<<>>, "none", FALSE, <<>>, <<>>)

\* _should_skip_file was not called directly
NoCall == [made |-> FALSE, path_str |-> <<>>, result |-> FALSE]

\* the GitHub URLs the workflow is asked for; each has its own directory
\* outputs/<owner>_<repo>
Urls == {"github.com/o/r", "github.com/o/s"}

\* what a fresh clone puts into the directory
CloneEntries == {".git", "src", "README.md"}

\* variant: the clone's .git directory is among the entries that are kept
keep_files_WithGit ==
    {"docs.md", "diagram.mmd", "code_graph.json", "file_tree.json", ".git"}

keep_files == {"docs.md", "diagram.mmd", "code_graph.json", "file_tree.json"}

\* no workflow is running and none has run; the directories do not exist
NoWorkflow ==
    [pc |-> "idle", url |-> "none", dir |-> [u \in Urls |-> {}], runs |-> <<>>]

Init ==
    /\ heap = [i \in 1..Len(Instances) |-> EmptyStats]
    /\ instRef = [i \in InstanceSet |-> CHOOSE k \in 1..Len(Instances) : Instances[k] = i]
    /\ hashSeed \in HashSeeds
    /\ scan = [s \in Slots |-> Idle]
    /\ returned = <<>>
    /\ raised = <<>>
    /\ started = 0
    /\ restarts = 0
    /\ probe = NoProbe
    /\ workdir = DefaultWorkdir
    /\ call = NoCall
    /\ wf = NoWorkflow

\* variant: the graph is an attribute of the scanner, so that a scan entered
\* while another one runs on the same instance goes on with its graph
ScanStart_SharedGraph(s, i, r) ==
    /\ ~scan[s].active
    /\ started < MaxScans
    /\ LET pos == NextPos(RepoOf(r, probe), "py", 1)
           others == {t \in Slots : scan[t].active /\ scan[t].inst = i}
       IN  scan' = [scan EXCEPT ![s] =
                      [active |-> TRUE, inst |-> i, repo |-> r, pc |-> pos[1], idx |-> pos[2],
                       graph |-> IF others = {} THEN NewGraph
                                 ELSE scan[CHOOSE t \in others : TRUE].graph,
                       log |-> <<>>]]
    /\ started' = started + 1
    /\ UNCHANGED <<heap, instRef, hashSeed, returned, raised, restarts, probe, workdir, call, wf>>

\* build_code_context_graph is entered: the graph literal and Path(repo_path)
ScanStart(s, i, r) ==
    /\ ~scan[s].active
    /\ started < MaxScans
    /\ LET pos == NextPos(RepoOf(r, probe), "py", 1) IN
       scan' = [scan EXCEPT ![s] =
                  [active |-> TRUE, inst |-> i, repo |-> r, pc |-> pos[1], idx |-> pos[2],
                   graph |-> NewGraph, log |-> <<>>]]
    /\ started' = started + 1
    /\ UNCHANGED <<heap, instRef, hashSeed, returned, raised, restarts, probe, workdir, call, wf>>

\* one iteration of the loop of sweep sw in the frame of slot s
LoopBody(s, sw) ==
    LET fr == scan[s]
        repo == RepoOf(fr.repo, probe)
        file == CurFile(fr)
        out == FileOutcome(sw, repo, hashSeed, file)
        pos == NextPos(repo, sw, fr.idx + 1)
        entry == [sweep |-> sw, path |-> file.path, status |-> out.status]
    IN  /\ fr.active
        /\ fr.pc = sw
        /\ IF out.status = "module"
           THEN /\ scan' = [scan EXCEPT ![s] =
                              [fr EXCEPT !.graph = Merge(fr.graph, sw, out.data),
                                         !.pc = pos[1], !.idx = pos[2],
                                         !.log = Append(@, entry)]]
                /\ heap' = [heap EXCEPT ![instRef[fr.inst]][LangOf(sw)] = @ + 1]
           ELSE /\ scan' = [scan EXCEPT ![s] =
                              [fr EXCEPT !.pc = pos[1], !.idx = pos[2],
                                         !.log = Append(@, entry)]]
                /\ heap' = heap
        /\ UNCHANGED <<instRef, hashSeed, returned, raised, started, restarts, probe, workdir, call, wf>>

ParsePythonFiles(s) == LoopBody(s, "py")
ParseJsFiles(s) == LoopBody(s, "js")
ParseJsxFiles(s) == LoopBody(s, "jsx")
ParseTsFiles(s) == LoopBody(s, "ts")
ParseTsxFiles(s) == LoopBody(s, "tsx")

\* the tail of build_code_context_graph: dependencies, language_stats, return
Finish(s) ==
    LET fr == scan[s]
        repo == RepoOf(fr.repo, probe)
        ref == instRef[fr.inst]
        graph == [fr.graph EXCEPT !.dependencies = _extract_dependencies(repo),
                                  !.language_stats = ref]
    IN  /\ fr.active
        /\ fr.pc = "deps"
        /\ scan' = [scan EXCEPT ![s] = Idle]
        /\ IF ExtractDependenciesRaises(repo)
           THEN /\ raised' = Append(raised, [repo |-> fr.repo, inst |-> fr.inst])
                /\ returned' = returned
           ELSE /\ returned' = Append(returned,
                                 [graph |-> graph, repo |-> fr.repo, inst |-> fr.inst,
                                  stats_at_return |-> heap[ref], log |-> fr.log])
                /\ raised' = raised
        /\ UNCHANGED <<heap, instRef, hashSeed, started, restarts, probe, workdir, call, wf>>

\* the interpreter is started again: new string hashes, and the module-level
\* CodeParser() calls construct new instances with new dicts
Restart ==
    /\ restarts < MaxRestarts
    /\ \A s \in Slots : ~scan[s].active
    /\ hashSeed' \in HashSeeds
    /\ heap' = heap \o [i \in 1..Len(Instances) |-> EmptyStats]
    /\ instRef' = [i \in InstanceSet |-> instRef[i] + Len(Instances)]
    /\ restarts' = restarts + 1
    /\ UNCHANGED <<scan, returned, raised, started, probe, workdir, call, wf>>

ScanStep(s) ==
    \/ \E i \in InstanceSet, r \in RepoIds : ScanStart(s, i, r)
    \/ ParsePythonFiles(s)
    \/ ParseJsFiles(s)
    \/ ParseJsxFiles(s)
    \/ ParseTsFiles(s)
    \/ ParseTsxFiles(s)
    \/ Finish(s)

\* scans run one after the other
Next ==
    \/ ScanStep(1)
    \/ Restart

Spec == Init /\ [][Next]_vars

-----------------------------------------------------------------------------
(* The scans of the second catalogue, one after the other in one           *)
(* interpreter.                                                            *)

TreeStart == \E i \in InstanceSet, r \in TreeIds : ScanStart(1, i, r)

NextTrees ==
    \/ TreeStart
    \/ ParsePythonFiles(1)
    \/ ParseJsFiles(1)
    \/ ParseJsxFiles(1)
    \/ ParseTsFiles(1)
    \/ ParseTsxFiles(1)
    \/ Finish(1)

SpecTrees == Init /\ [][NextTrees]_vars

-----------------------------------------------------------------------------
(* Two scans of the second catalogue on one scanner instance, interleaved  *)
(* file by file: two callers are inside build_code_context_graph at once.  *)

\* a caller enters the scan of a repository that no running scan is on, on
\* the instance the running scan uses
InterleavedStart(s) ==
    \E i \in InstanceSet, r \in TreeIds :
        /\ \A t \in Slots \ {s} :
              scan[t].active => (scan[t].inst = i /\ scan[t].repo # r)
        /\ ScanStart(s, i, r)

InterleavedStep(s) ==
    \/ InterleavedStart(s)
    \/ ParsePythonFiles(s)
    \/ ParseJsFiles(s)
    \/ ParseJsxFiles(s)
    \/ ParseTsFiles(s)
    \/ ParseTsxFiles(s)
    \/ Finish(s)

NextInterleaved == \E s \in Slots : InterleavedStep(s)

SpecInterleaved == Init /\ [][NextInterleaved]_vars

-----------------------------------------------------------------------------------------------------------------------------------------------------
(* The one-file repositories: the probe file is written statement by       *)
(* statement, up to MaxDecls statements, and then scanned once.            *)

PyNames == {App, run}

PyLeaves == {Def(k, n, <<>>) : k \in PyKinds, n \in PyNames}

PyDefs ==
    PyLeaves \cup {Def(k, n, <<Def(c, run, <<>>)>>) : k \in PyKinds, n \in PyNames, c \in PyKinds}

JsDecls == {Decl(f, n) : f \in Forms, n \in {App, run}}

TsDecls == {Decl(f, n) : f \in Forms, n \in Range(Names)}

ProbeStarts ==
    { PyFile(<<"a",".","p","y">>, <<>>),
      File(<<"a",".","p","y">>, "ok", FALSE, <<>>, <<>>),
      File(<<"a",".","p","y">>, "unreadable", TRUE, <<Def("ClassDef", App, <<>>)>>, <<>>),
      File(<<"a",".","t","s">>, "unreadable", TRUE, <<>>, <<Decl("Class", App)>>),
      JsFile(<<"a",".","j","s">>, <<>>),
      JsFile(<<"a",".","t","s">>, <<>>),
      JsFile(<<"a",".","j","s","x">>, <<>>),
      JsFile(<<"a",".","t","s","x">>, <<>>) }

InitFile ==
    /\ heap = [i \in 1..Len(Instances) |-> EmptyStats]
    /\ instRef = [i \in InstanceSet |-> CHOOSE k \in 1..Len(Instances) : Instances[k] = i]
    /\ hashSeed \in HashSeeds
    /\ scan = [s \in Slots |-> Idle]
    /\ returned = <<>>
    /\ raised = <<>>
    /\ started = 0
    /\ restarts = 0
    /\ probe \in ProbeStarts
    /\ workdir = DefaultWorkdir
    /\ call = NoCall
    /\ wf = NoWorkflow

Writable == started = 0 /\ probe.read = "ok" /\ probe.syntax_ok

\* a definition is added at the end of the Python probe file
WritePy ==
    /\ Writable
    /\ EndsWith(probe.path, Ext("py"))
    /\ Len(probe.tree) < MaxDecls
    /\ \E d \in PyDefs : probe' = [probe EXCEPT !.tree = Append(@, d)]
    /\ UNCHANGED <<heap, instRef, hashSeed, scan, returned, raised, started, restarts, workdir, call, wf>>

\* a statement is added at the end of the JavaScript / TypeScript probe file
WriteJs ==
    /\ Writable
    /\ \/ /\ EndsWith(probe.path, Ext("js"))
          /\ Len(probe.decls) < MaxDecls
          /\ \E d \in JsDecls : probe' = [probe EXCEPT !.decls = Append(@, d)]
       \/ /\ EndsWith(probe.path, Ext("ts"))
          /\ Len(probe.decls) < MaxDecls
          /\ \E d \in TsDecls : probe' = [probe EXCEPT !.decls = Append(@, d)]
       \/ /\ EndsWith(probe.path, Ext("jsx")) \/ EndsWith(probe.path, Ext("tsx"))
          /\ Len(probe.decls) < 1
          /\ \E d \in TsDecls : probe' = [probe EXCEPT !.decls = Append(@, d)]
    /\ UNCHANGED <<heap, instRef, hashSeed, scan, returned, raised, started, restarts, workdir, call, wf>>

\* one scan of the generated repository by the abilities instance
ProbeStart == started = 0 /\ ScanStart(1, "abilities", 0)

NextFile ==
    \/ WritePy
    \/ WriteJs
    \/ ProbeStart
    \/ ParsePythonFiles(1)
    \/ ParseJsFiles(1)
    \/ ParseJsxFiles(1)
    \/ ParseTsFiles(1)
    \/ ParseTsxFiles(1)
    \/ Finish(1)

SpecFile == InitFile /\ [][NextFile]_vars

-----------------------------------------------------------------------------
(* The generated manifests: package.json is written entry by entry and     *)
(* requirements.txt line by line, a file may be damaged, and then the      *)
(* directory (which holds no source file) is scanned once.                 *)

PackageNames == { <<"r","e","a","c","t">>, <<"j","e","s","t">> }

PackageVersion == <<"^","1","8">>

\* lines of a requirements.txt, without their line end
RequirementTexts ==
    { Flask,
      <<"r","q","=","=","2",".","1">>,
      <<"#"," ","c">>,
      <<>>,
      <<" ","a"," ","=","="," ","1"," ">>,
      <<"a","=","=","=","1","=","=","2">>,
      <<" ","#","c">> }

\* package.json: absent, not JSON, an object whose two dependency maps are
\* objects, or an object whose "devDependencies" is not an object
PackageJsonStarts ==
    { NoPackageJson,
      [state |-> "malformed", deps |-> <<>>, devDeps |-> <<>>, dev_is_map |-> TRUE],
      [state |-> "ok", deps |-> <<>>, devDeps |-> <<>>, dev_is_map |-> TRUE],
      [state |-> "ok", deps |-> <<>>, devDeps |-> <<>>, dev_is_map |-> FALSE] }

RequirementsStarts ==
    { NoRequirements, [state |-> "ok", lines |-> <<>>, fail_at |-> 0] }

InitManifest ==
    /\ heap = [i \in 1..Len(Instances) |-> EmptyStats]
    /\ instRef = [i \in InstanceSet |-> CHOOSE k \in 1..Len(Instances) : Instances[k] = i]
    /\ hashSeed = 0
    /\ scan = [s \in Slots |-> Idle]
    /\ returned = <<>>
    /\ raised = <<>>
    /\ started = 0
    /\ restarts = 0
    /\ probe = NoProbe
    /\ workdir \in [root : {<<"x">>}, package_json : PackageJsonStarts,
                    requirements : RequirementsStarts]
    /\ call = NoCall
    /\ wf = NoWorkflow

\* the keys of a JSON object after json.load are distinct
Keys(entries) == {entries[i][1] : i \in 1..Len(entries)}

\* an entry is added to "dependencies" or to "devDependencies"
WritePackageJson ==
    /\ started = 0
    /\ workdir.package_json.state = "ok"
    /\ \E n \in PackageNames :
         \/ /\ Len(workdir.package_json.deps) < MaxEntries
            /\ n \notin Keys(workdir.package_json.deps)
            /\ workdir' = [workdir EXCEPT !.package_json.deps =
                                             Append(@, <<n, PackageVersion>>)]
         \/ /\ workdir.package_json.dev_is_map
            /\ Len(workdir.package_json.devDeps) < MaxEntries
            /\ n \notin Keys(workdir.package_json.devDeps)
            /\ workdir' = [workdir EXCEPT !.package_json.devDeps =
                                             Append(@, <<n, PackageVersion>>)]
    /\ UNCHANGED <<heap, instRef, hashSeed, scan, returned, raised, started, restarts,
                   probe, call, wf>>

\* a line is added at the end of requirements.txt
WriteRequirements ==
    /\ started = 0
    /\ workdir.requirements.state = "ok"
    /\ Len(workdir.requirements.lines) < MaxLines
    /\ \E t \in RequirementTexts :
         workdir' = [workdir EXCEPT !.requirements.lines = Append(@, t)]
    /\ UNCHANGED <<heap, instRef, hashSeed, scan, returned, raised, started, restarts,
                   probe, call, wf>>

\* requirements.txt is damaged after its current last line: what follows
\* cannot be decoded (or the file cannot be opened, when it has no line yet)
DamageRequirements ==
    /\ started = 0
    /\ workdir.requirements.state = "ok"
    /\ workdir.requirements.fail_at = 0
    /\ workdir' = [workdir EXCEPT !.requirements.fail_at =
                                     Len(workdir.requirements.lines) + 1]
    /\ UNCHANGED <<heap, instRef, hashSeed, scan, returned, raised, started, restarts,
                   probe, call, wf>>

NextManifest ==
    \/ WritePackageJson
    \/ WriteRequirements
    \/ DamageRequirements
    \/ ProbeStart
    \/ Finish(1)

SpecManifest == InitManifest /\ [][NextManifest]_vars

-----------------------------------------------------------------------------
(* The generated paths: a file of fixed content is moved into directories, *)
(* up to MaxDepth deep, under one of several roots, and then scanned once. *)

\* the directory names _should_skip_file is about
SkipDirNames ==
    { <<".","g","i","t">>,
      <<"n","o","d","e","_","m","o","d","u","l","e","s">>,
      <<"v","e","n","v">>,
      <<".","v","e","n","v">>,
      <<"d","i","s","t">>,
      <<"b","u","i","l","d">>,
      <<"_","_","p","y","c","a","c","h","e","_","_">> }

\* and directory names that are not among them
PlainDirNames ==
    { <<"s">>, <<"r","e","b","u","i","l","d">>, <<"m","y","v","e","n","v">> }

DirNames == SkipDirNames \cup PlainDirNames

\* the repo_path strings: ".", a plain directory, a directory named like a
\* build directory, and an absolute path through one
Roots == { <<>>, <<"x">>, <<"b","u","i","l","d">>, <<"/","w","/","d","i","s","t">> }

PathProbes ==
    { PyFile(<<"a",".","p","y">>, << Def("FunctionDef", run, <<>>) >>),
      JsFile(<<"a",".","j","s">>, << Decl("Func", run) >>),
      JsFile(<<"a",".","j","s","x">>, << Decl("ArrowParenBlock", App) >>),
      JsFile(<<"a",".","t","s","x">>, << Decl("FCArrow", App) >>),
      JsFile(<<"d",".","t","s">>, << Decl("Class", App) >>),
      JsFile(<<"t",".","d",".","t","s">>, << Decl("Class", App) >>),
      JsFile(<<"a",".","b",".","d",".","t","s">>, << Decl("Class", App) >>) }

InitPath ==
    /\ heap = [i \in 1..Len(Instances) |-> EmptyStats]
    /\ instRef = [i \in InstanceSet |-> CHOOSE k \in 1..Len(Instances) : Instances[k] = i]
    /\ hashSeed \in HashSeeds
    /\ scan = [s \in Slots |-> Idle]
    /\ returned = <<>>
    /\ raised = <<>>
    /\ started = 0
    /\ restarts = 0
    /\ probe \in PathProbes
    /\ workdir \in [root : Roots, package_json : {NoPackageJson},
                    requirements : {NoRequirements}]
    /\ call = NoCall
    /\ wf = NoWorkflow

\* the segments of a path
Segments(path) == Split(path, "/")

\* the file is moved into a new directory of the tree
MkDir ==
    /\ started = 0
    /\ Len(Segments(probe.path)) <= MaxDepth
    /\ \E d \in DirNames : probe' = [probe EXCEPT !.path = d \o <<"/">> \o @]
    /\ UNCHANGED <<heap, instRef, hashSeed, scan, returned, raised, started, restarts,
                   workdir, call, wf>>

NextPath ==
    \/ MkDir
    \/ ProbeStart
    \/ ParsePythonFiles(1)
    \/ ParseJsFiles(1)
    \/ ParseJsxFiles(1)
    \/ ParseTsFiles(1)
    \/ ParseTsxFiles(1)
    \/ Finish(1)

SpecPath == InitPath /\ [][NextPath]_vars

-----------------------------------------------------------------------------
(* The direct calls of _should_skip_file: a path is built from a last      *)
(* segment and up to MaxDepth directories under one of the roots, and the  *)
(* function is applied to it once.                                         *)

\* directory names that hold the characters of an exclusion name inside a
\* longer name
LongerDirNames ==
    { <<".","g","i","t","h","u","b">>, <<"x",".","g","i","t">> }

CallDirNames == DirNames \cup LongerDirNames

\* last segments: source files, and directories named like an exclusion
CallNames ==
    { <<"a",".","p","y">>,
      <<"a",".","g","i","t",".","p","y">>,
      <<"n","o","d","e","_","m","o","d","u","l","e","s","_","h","e","l","p","e","r",".","j","s">>,
      <<".","g","i","t">>,
      <<"b","u","i","l","d">> }

InitSkip ==
    /\ heap = [i \in 1..Len(Instances) |-> EmptyStats]
    /\ instRef = [i \in InstanceSet |-> CHOOSE k \in 1..Len(Instances) : Instances[k] = i]
    /\ hashSeed = 0
    /\ scan = [s \in Slots |-> Idle]
    /\ returned = <<>>
    /\ raised = <<>>
    /\ started = 0
    /\ restarts = 0
    /\ probe \in {File(n, "ok", TRUE, <<>>, <<>>) : n \in CallNames}
    /\ workdir \in [root : Roots, package_json : {NoPackageJson},
                    requirements : {NoRequirements}]
    /\ call = NoCall
    /\ wf = NoWorkflow

\* the path is put into a further directory
CallMkDir ==
    /\ ~call.made
    /\ Len(Segments(probe.path)) <= MaxDepth
    /\ \E d \in CallDirNames : probe' = [probe EXCEPT !.path = d \o <<"/">> \o @]
    /\ UNCHANGED <<heap, instRef, hashSeed, scan, returned, raised, started, restarts,
                   workdir, call, wf>>

\* self._should_skip_file(repo_path_obj / path)
ShouldSkipCall ==
    /\ ~call.made
    /\ LET path_str == FullPath(workdir.root, probe.path) IN
       call' = [made |-> TRUE, path_str |-> path_str,
                result |-> _should_skip_file(path_str)]
    /\ UNCHANGED <<heap, instRef, hashSeed, scan, returned, raised, started, restarts,
                   probe, workdir, wf>>

NextSkip ==
    \/ CallMkDir
    \/ ShouldSkipCall

SpecSkip == InitSkip /\ [][NextSkip]_vars

-----------------------------------------------------------------------------
(* The Python workflow of the orchestrator, one run after the other: clone *)
(* or reuse, analysis, the four saves, cleanup.  wf.dir[u] is the set of   *)
(* top-level entries of the directory of URL u; wf.runs records, for each  *)
(* run, what clone_repository found and did, and whether the run returned. *)

Run(url, held, clone) == [url |-> url, held |-> held, clone |-> clone, completed |-> FALSE]

\* clone_repository finds <repo_dir>/.git and returns the directory as it is
CloneReuses(u) ==
    /\ wf.pc = "idle"
    /\ Len(wf.runs) < MaxWorkflows
    /\ ".git" \in wf.dir[u]
    /\ wf' = [wf EXCEPT !.pc = "analyse", !.url = u,
                        !.runs = Append(@, Run(u, wf.dir[u], "reused"))]
    /\ UNCHANGED <<heap, instRef, hashSeed, scan, returned, raised, started, restarts,
                   probe, workdir, call>>

\* no .git: git.Repo.clone_from into the directory, which git accepts only
\* when it is empty
CloneSucceeds(u) ==
    /\ wf.pc = "idle"
    /\ Len(wf.runs) < MaxWorkflows
    /\ ".git" \notin wf.dir[u]
    /\ wf.dir[u] = {}
    /\ wf' = [wf EXCEPT !.pc = "analyse", !.url = u,
                        !.dir[u] = CloneEntries,
                        !.runs = Append(@, Run(u, wf.dir[u], "cloned"))]
    /\ UNCHANGED <<heap, instRef, hashSeed, scan, returned, raised, started, restarts,
                   probe, workdir, call>>

\* clone_from raises (the directory is not empty, or the network fails):
\* clone_repository returns None and the workflow raises
CloneFails(u) ==
    /\ wf.pc = "idle"
    /\ Len(wf.runs) < MaxWorkflows
    /\ ".git" \notin wf.dir[u]
    /\ wf' = [wf EXCEPT !.url = u,
                        !.runs = Append(@, Run(u, wf.dir[u], "failed"))]
    /\ UNCHANGED <<heap, instRef, hashSeed, scan, returned, raised, started, restarts,
                   probe, workdir, call>>

\* steps 2 to 6: file tree, README summary, code graph, documentation, diagram
Analyse ==
    /\ wf.pc = "analyse"
    /\ wf' = [wf EXCEPT !.pc = "save_documentation"]
    /\ UNCHANGED <<heap, instRef, hashSeed, scan, returned, raised, started, restarts,
                   probe, workdir, call>>

\* one of the steps 2 to 7 raises: the workflow ends without cleanup
WorkflowRaises ==
    /\ wf.pc \notin {"idle", "cleanup"}
    /\ wf' = [wf EXCEPT !.pc = "idle"]
    /\ UNCHANGED <<heap, instRef, hashSeed, scan, returned, raised, started, restarts,
                   probe, workdir, call>>

\* step 7: the four saves, in the order of the source
SaveSteps ==
    << [pc |-> "save_documentation", file |-> "docs.md"],
       [pc |-> "save_file_tree", file |-> "file_tree.json"],
       [pc |-> "save_code_graph", file |-> "code_graph.json"],
       [pc |-> "save_diagram", file |-> "diagram.mmd"] >>

Save(i) ==
    /\ wf.pc = SaveSteps[i].pc
    /\ wf' = [wf EXCEPT !.dir[wf.url] = @ \cup {SaveSteps[i].file},
                        !.pc = IF i < Len(SaveSteps) THEN SaveSteps[i + 1].pc ELSE "cleanup"]
    /\ UNCHANGED <<heap, instRef, hashSeed, scan, returned, raised, started, restarts,
                   probe, workdir, call>>

save_documentation == Save(1)
save_file_tree == Save(2)
save_code_graph == Save(3)
save_diagram == Save(4)

\* step 8 and the return of the result
cleanup_repository ==
    /\ wf.pc = "cleanup"
    /\ wf' = [wf EXCEPT !.dir[wf.url] = @ \cap keep_files,
                        !.pc = "idle",
                        !.runs[Len(wf.runs)].completed = TRUE]
    /\ UNCHANGED <<heap, instRef, hashSeed, scan, returned, raised, started, restarts,
                   probe, workdir, call>>

NextWorkflow ==
    \/ \E u \in Urls : CloneReuses(u)
    \/ \E u \in Urls : CloneSucceeds(u)
    \/ \E u \in Urls : CloneFails(u)
    \/ Analyse
    \/ WorkflowRaises
    \/ save_documentation
    \/ save_file_tree
    \/ save_code_graph
    \/ save_diagram
    \/ cleanup_repository

SpecWorkflow == Init /\ [][NextWorkflow]_vars

-----------------------------------------------------------------------------
(* Vocabulary of the properties *)

SweepSet == Range(Sweeps)

\* the CCG of a return record with the language_stats it had when returned
AsReturned(rec) == [rec.graph EXCEPT !.language_stats = rec.stats_at_return]

\* the CCG a caller holds, read through its reference into heap h
LiveIn(h, rec) == [rec.graph EXCEPT !.language_stats = h[rec.graph.language_stats]]

\* the sweep whose loop picks a file up
SweepOfPath(path) == CHOOSE sw \in SweepSet : EndsWith(path, Ext(sw))

\* number of files of a repository that yield a Module in a sweep of language l
FreshCount(repo, seed, l) ==
    Cardinality({p \in SweepSet \X (1..Len(repo.files)) :
                    /\ LangOf(p[1]) = l
                    /\ p[2] <= Len(rglob(repo, p[1]))
                    /\ FileOutcome(p[1], repo, seed, rglob(repo, p[1])[p[2]]).status = "module"})

\* slot s handles the current file of its loop in this step
StepOf(s) == scan[s].active /\ scan[s].pc \in SweepSet /\ scan'[s] # scan[s]

Skipped(fr) == _should_skip_file(FullPath(RepoOf(fr.repo, probe).root, CurFile(fr).path))

IsDts(fr) == fr.pc = "ts" /\ Suffixes(CurFile(fr).path) = << <<".","d">>, <<".","t","s">> >>

ModuleIdOf(sw, path) ==
    CASE sw = "py" -> ModuleIdPy(path)
      [] sw \in {"js", "jsx"} -> ModuleIdJs(path)
      [] sw \in {"ts", "tsx"} -> ModuleIdTs(path)

CountIn(seq, x) == Cardinality({i \in 1..Len(seq) : seq[i] = x})

RECURSIVE CountDefs(_, _, _)
CountDefs(defs, kind, name) ==
    IF defs = <<>> THEN 0
    ELSE (IF Head(defs).kind = kind /\ Head(defs).name = name THEN 1 ELSE 0)
         + CountDefs(Head(defs).body, kind, name)
         + CountDefs(Tail(defs), kind, name)

CountForms(decls, forms, name) ==
    Cardinality({i \in 1..Len(decls) : decls[i].form \in forms /\ decls[i].name = name})

\* number of declarations of a kind and name that the extractor of sweep sw
\* looks for in a file
Declared(sw, file, type, name) ==
    LET patterns ==
            IF sw \in {"js", "jsx"}
            THEN [class |-> class_pattern,
                  function |-> js_func_pattern \cup js_arrow_pattern,
                  component |-> react_component_pattern]
            ELSE [class |-> class_pattern,
                  function |-> ts_func_pattern \cup ts_arrow_pattern,
                  component |-> react_component_pattern1 \cup react_component_pattern2]
        py_kind == [class |-> "ClassDef", function |-> "FunctionDef"]
    IN  IF file.read # "ok" THEN 0
        ELSE IF sw = "py"
             THEN IF ~file.syntax_ok \/ type = "component" THEN 0
                  ELSE CountDefs(file.tree, py_kind[type], name)
             ELSE IF type = "component" /\ ~IsUpperName(name) THEN 0
                  ELSE CountForms(file.decls, patterns[type], name)

Types == {"class", "function", "component"}

\* the returned CCGs of the generated one-file repository
ProbeReturns == {k \in 1..Len(returned) : returned[k].repo = 0}

-----------------------------------------------------------------------------
(* Properties of the scans: C1 - C3 *)

\* C1: any two scans of the same unchanged repository return equal CCGs
\* (nodes, modules, language_stats, dependencies), whichever instances ran them.
C1_ScansDeterministic ==
    \A j, k \in 1..Len(returned) :
        returned[j].repo = returned[k].repo
            => AsReturned(returned[j]) = AsReturned(returned[k])

\* C2: the language_stats of every returned CCG counts only the files of the
\* repository of that scan, as a fresh scanner would.
C2_StatsOfThisScanOnly ==
    \A k \in 1..Len(returned) :
        returned[k].stats_at_return
            = [l \in Langs |-> FreshCount(RepoOf(returned[k].repo, probe), hashSeed, l)]

\* C3: a CCG that was returned keeps the value of every field in every
\* later step.
C3_ReturnedNeverChanges ==
    [][\A k \in 1..Len(returned) :
          LiveIn(heap', returned'[k]) = LiveIn(heap, returned[k])]_vars

-----------------------------------------------------------------------------
(* Properties of the loops: C4 - C6 *)

\* the graphs under construction and the graphs returned, with their repository
Graphs ==
    {[graph |-> scan[s].graph, repo |-> scan[s].repo] : s \in {t \in Slots : scan[t].active}}
    \cup {[graph |-> returned[k].graph, repo |-> returned[k].repo] : k \in 1..Len(returned)}

NoModuleOfSkippedFile ==
    \A g \in Graphs :
        LET repo == RepoOf(g.repo, probe) IN
        \A i \in 1..Len(repo.files) :
            _should_skip_file(FullPath(repo.root, repo.files[i].path))
                => \A m \in DOMAIN g.graph.modules :
                      g.graph.modules[m].path # repo.files[i].path

SkippedStepChangesNothing ==
    \A s \in Slots :
        (StepOf(s) /\ Skipped(scan[s]))
            => /\ scan'[s].graph = scan[s].graph
               /\ heap' = heap

\* C4: a file for which _should_skip_file is true, in any of the five sweeps,
\* adds no Module, no Node and no count: handling it leaves the graph and the
\* counters as they were, and no graph ever holds a Module with its path.
C4_SkippedFilesLeaveNoTrace ==
    [](NoModuleOfSkippedFile) /\ [][SkippedStepChangesNothing]_vars

\* a scan that met a rejected file and collected Nodes from other files has returned
C4_Witness ==
    \E k \in 1..Len(returned) :
        /\ \E i \in 1..Len(returned[k].log) : returned[k].log[i].status = "skipped"
        /\ returned[k].graph.nodes # <<>>

\* C5: in the Python sweep every accepted file that is read and parsed
\* registers a Module under its id and adds exactly one to the Python counter,
\* whatever the number of classes and functions it defines.
C5_PythonCountsFiles ==
    [][\A s \in Slots :
          (/\ StepOf(s)
           /\ scan[s].pc = "py"
           /\ ~Skipped(scan[s])
           /\ CurFile(scan[s]).read = "ok"
           /\ CurFile(scan[s]).syntax_ok)
          => LET file == CurFile(scan[s])
                 mid == ModuleIdPy(file.path)
                 ref == instRef[scan[s].inst]
             IN  /\ mid \in DOMAIN scan'[s].graph.modules
                 /\ scan'[s].graph.modules[mid].id = mid
                 /\ scan'[s].graph.modules[mid].path = file.path
                 /\ heap' = [heap EXCEPT ![ref]["Python"] = @ + 1]]_vars

\* a Python file without any class or function was scanned: one Module
\* with empty lists, no Node, Python counter 1
C5_Witness ==
    \E k \in ProbeReturns :
        /\ returned[k].graph.nodes = <<>>
        /\ \E m \in DOMAIN returned[k].graph.modules :
              /\ returned[k].graph.modules[m].classes = <<>>
              /\ returned[k].graph.modules[m].functions = <<>>
        /\ returned[k].stats_at_return["Python"] = 1

\* some function, class or component is found in a JavaScript / TypeScript file
Found(sw, file) ==
    \E type \in Types, name \in Range(Names) : Declared(sw, file, type, name) > 0

\* C6: in the .js, .jsx, .ts and .tsx sweeps an accepted file in which no
\* function, class or component is found leaves the graph and the counters
\* unchanged (its imports and exports are dropped); one in which something is
\* found registers exactly one Module and adds exactly one to its counter.
C6_PatternSweepsCountModules ==
    [][\A s \in Slots :
          (/\ StepOf(s)
           /\ scan[s].pc \in {"js", "jsx", "ts", "tsx"}
           /\ ~Skipped(scan[s])
           /\ ~IsDts(scan[s]))
          => LET sw == scan[s].pc
                 file == CurFile(scan[s])
                 mid == ModuleIdOf(sw, file.path)
                 ref == instRef[scan[s].inst]
             IN  IF Found(sw, file)
                 THEN /\ DOMAIN scan'[s].graph.modules
                            = (DOMAIN scan[s].graph.modules) \cup {mid}
                      /\ \A m \in DOMAIN scan[s].graph.modules \ {mid} :
                            scan'[s].graph.modules[m] = scan[s].graph.modules[m]
                      /\ scan'[s].graph.modules[mid].path = file.path
                      /\ heap' = [heap EXCEPT ![ref][LangOf(sw)] = @ + 1]
                 ELSE /\ scan'[s].graph = scan[s].graph
                      /\ heap' = heap]_vars

\* a JavaScript file holding only an import or an exported constant was
\* scanned: no Module, no Node, no count
C6_Witness ==
    \E k \in ProbeReturns :
        /\ EndsWith(probe.path, Ext("js"))
        /\ \E i \in 1..Len(probe.decls) : probe.decls[i].form \in {"Import", "ExportConst"}
        /\ ~Found("js", probe)
        /\ DOMAIN returned[k].graph.modules = {}
        /\ returned[k].graph.nodes = <<>>
        /\ returned[k].stats_at_return = EmptyStats

-----------------------------------------------------------------------------
(* Properties of the extracted Nodes: C7, C8 *)

\* the module's list of a type, empty when the module has no such field
ListOf(data, type) ==
    CASE type = "class" -> data.classes
      [] type = "function" -> data.functions
      [] type = "component" -> GetComponents(data)

\* the graph holds, for the probe file, n Nodes of this type and name, all
\* with id "<module_id>.<name>", in the node list and in its Module's list
HoldsNodes(graph, sw, type, name, n) ==
    LET mid == ModuleIdOf(sw, probe.path)
        node == Node(mid, type, name)
    IN  /\ CountIn(graph.nodes, node) = n
        /\ Cardinality({i \in 1..Len(graph.nodes) :
                           graph.nodes[i].type = type /\ graph.nodes[i].name = name}) = n
        /\ mid \in DOMAIN graph.modules
              => CountIn(ListOf(graph.modules[mid], type), node)
                   = (IF sw = "py" /\ type = "component" THEN 0 ELSE n)
        /\ (n > 0) => mid \in DOMAIN graph.modules

\* C7 as stated: every declaration found in a file, of any kind and in any
\* language, has its own Node, so that same-name declarations give as many
\* Nodes with identical ids in the module's list and in the node list.
C7_NeverDeduplicated ==
    \A k \in ProbeReturns :
        LET sw == SweepOfPath(probe.path) IN
        \A type \in Types, name \in Range(Names) :
            HoldsNodes(returned[k].graph, sw, type, name, Declared(sw, probe, type, name))

\* the number of Nodes the code keeps: a component name of a TypeScript file
\* is kept once, everything else once per declaration
Kept(sw, file, type, name) ==
    IF sw \in {"ts", "tsx"} /\ type = "component" /\ Declared(sw, file, type, name) > 0
    THEN 1
    ELSE Declared(sw, file, type, name)

\* C7 amended: classes and functions of every language and components of
\* JavaScript files have one Node per declaration found, never deduplicated;
\* the components of a TypeScript file have one Node per distinct name.
C7_DeduplicatedOnlyTsComponents ==
    \A k \in ProbeReturns :
        LET sw == SweepOfPath(probe.path) IN
        \A type \in Types, name \in Range(Names) :
            HoldsNodes(returned[k].graph, sw, type, name, Kept(sw, probe, type, name))

\* a TypeScript file declaring one function name twice and one component
\* name twice was scanned: two function Nodes with one id, one component Node
C7_Witness ==
    \E k \in ProbeReturns :
        /\ EndsWith(probe.path, Ext("ts"))
        /\ Declared("ts", probe, "function", App) = 2
        /\ Declared("ts", probe, "component", App) = 2
        /\ CountIn(returned[k].graph.nodes, Node(<<"a">>, "function", App)) = 2
        /\ CountIn(returned[k].graph.nodes, Node(<<"a">>, "component", App)) = 1

\* the arrow functions with a block body: name = ... => {
ArrowBlockForms ==
    {"ArrowParenBlock", "LetArrowParenBlock", "ArrowBareBlock", "ArrowDefaultBlock"}

HasNode(graph, type, name) ==
    \E i \in 1..Len(graph.nodes) :
        graph.nodes[i].type = type /\ graph.nodes[i].name = name

ComponentsAreUppercase(graph) ==
    \A i \in 1..Len(graph.nodes) :
        graph.nodes[i].type = "component" => IsUpperName(graph.nodes[i].name)

JsTsProbe == probe.read = "ok" /\ SweepOfPath(probe.path) # "py"

\* C8 as stated: component Nodes have uppercase-initial names, and every
\* lowercase-named arrow function with a block body in a JavaScript or
\* TypeScript file yields a function Node and no component Node.
C8_LowercaseArrowIsFunction ==
    \A k \in ProbeReturns :
        /\ ComponentsAreUppercase(returned[k].graph)
        /\ JsTsProbe =>
             \A i \in 1..Len(probe.decls) :
                 (probe.decls[i].form \in ArrowBlockForms /\ ~IsUpperName(probe.decls[i].name))
                   => /\ HasNode(returned[k].graph, "function", probe.decls[i].name)
                      /\ ~HasNode(returned[k].graph, "component", probe.decls[i].name)

\* C8 amended: component Nodes have uppercase-initial names and a
\* lowercase-named arrow function with a block body never yields a component
\* Node; it yields a function Node exactly when the arrow pattern of its
\* language matches it (or another declaration of the name is a function).
C8_LowercaseArrowNeverComponent ==
    \A k \in ProbeReturns :
        /\ ComponentsAreUppercase(returned[k].graph)
        /\ JsTsProbe =>
             LET sw == SweepOfPath(probe.path) IN
             \A i \in 1..Len(probe.decls) :
                 (probe.decls[i].form \in ArrowBlockForms /\ ~IsUpperName(probe.decls[i].name))
                   => /\ ~HasNode(returned[k].graph, "component", probe.decls[i].name)
                      /\ HasNode(returned[k].graph, "function", probe.decls[i].name)
                           <=> Declared(sw, probe, "function", probe.decls[i].name) > 0

\* a JavaScript file whose only statement is "const run = a => {" was
\* scanned: neither a function nor a component Node
C8_Witness ==
    \E k \in ProbeReturns :
        /\ probe.path = <<"a",".","j","s">>
        /\ probe.decls = <<Decl("ArrowBareBlock", run)>>
        /\ returned[k].graph.nodes = <<>>

-----------------------------------------------------------------------------
(* Properties of the returned value: C9, C10 *)

\* C9: the edges of every CCG, under construction or returned, are empty.
C9_EdgesAlwaysEmpty == \A g \in Graphs : g.graph.edges = <<>>

\* a second scan returned a CCG with Nodes
C9_Witness ==
    /\ Len(returned) >= 2
    /\ returned[2].graph.nodes # <<>>
    /\ returned[2].graph.edges = <<>>

\* C10: no CCG is returned for a repository root that does not exist or
\* cannot be read; such a scan ends by raising.
C10_RootFailureRaises ==
    \A k \in 1..Len(returned) : RepoOf(returned[k].repo, probe).root_state = "ok"

-----------------------------------------------------------------------------
(* Properties of error handling: C11, C12 *)

\* the extractor of sweep sw fails on the file: it cannot be read, or it is a
\* .py file that ast.parse rejects
Fails(sw, file) == file.read # "ok" \/ (sw = "py" /\ ~file.syntax_ok)

\* neither "continue" test of the loop of sweep sw rejects the file
Accepted(sw, repo, file) ==
    /\ ~_should_skip_file(FullPath(repo.root, file.path))
    /\ ~(sw = "ts" /\ Suffixes(file.path) = << <<".","d">>, <<".","t","s">> >>)

\* the file holds what its extractor needs to return a Module
Yields(sw, file) == ~Fails(sw, file) /\ (sw = "py" \/ Found(sw, file))

FailureStepRecovers ==
    \A s \in Slots :
        (/\ StepOf(s)
         /\ Accepted(scan[s].pc, RepoOf(scan[s].repo, probe), CurFile(scan[s]))
         /\ Fails(scan[s].pc, CurFile(scan[s])))
        => /\ scan'[s].graph = scan[s].graph
           /\ heap' = heap
           /\ raised' = raised
           /\ scan'[s].active

\* every file the five globs list was handled; the accepted ones that can be
\* extracted have their Module, the failing ones have none
EveryFileHandled(rec) ==
    LET repo == RepoOf(rec.repo, probe) IN
    \A sw \in SweepSet :
        \A i \in 1..Len(rglob(repo, sw)) :
            LET file == rglob(repo, sw)[i] IN
            /\ \E j \in 1..Len(rec.log) :
                  rec.log[j].sweep = sw /\ rec.log[j].path = file.path
            /\ (Accepted(sw, repo, file) /\ Yields(sw, file))
                  => ModuleIdOf(sw, file.path) \in DOMAIN rec.graph.modules
            /\ (Accepted(sw, repo, file) /\ Fails(sw, file))
                  => \A m \in DOMAIN rec.graph.modules :
                        rec.graph.modules[m].path # file.path

\* C11: a file whose extraction fails (unreadable in any sweep, invalid syntax
\* in the Python sweep) adds no Module and no Node and leaves the counters
\* unchanged; the scan goes on, handles every other file of this and of the
\* later sweeps, and ends by returning: only a root failure makes a scan raise.
C11_FileFailureRecovered ==
    /\ [](\A k \in 1..Len(returned) : EveryFileHandled(returned[k]))
    /\ [](\A k \in 1..Len(raised) : RepoOf(raised[k].repo, probe).root_state # "ok")
    /\ [][FailureStepRecovers]_vars

\* a scan has returned in which the Python sweep met a failing file and then
\* extracted another one, and later sweeps met unreadable files and extracted
\* other ones
C11_Witness ==
    \E k \in 1..Len(returned) :
        LET log == returned[k].log
            repo == RepoOf(returned[k].repo, probe)
        IN  /\ \E i, j \in 1..Len(log) :
                  /\ i < j
                  /\ log[i].sweep = "py" /\ log[i].status = "raise"
                  /\ log[j].sweep = "py" /\ log[j].status = "module"
            /\ \E i, j \in 1..Len(log) :
                  /\ i < j
                  /\ log[i].sweep = "tsx" /\ log[i].status = "none"
                  /\ \E f \in Range(repo.files) :
                        f.path = log[i].path /\ f.read # "ok"
                  /\ log[j].sweep = "tsx" /\ log[j].status = "module"
            /\ Len(returned[k].graph.nodes) >= 5

\* every step of reading the manifest succeeds
PackageJsonReadable(pj) == pj.state = "ok" /\ pj.dev_is_map

RequirementsReadable(rq) == rq.state = "ok" /\ rq.fail_at = 0

\* the entries a package.json declares: production, then development
DeclaredInPackageJson(pj) ==
    [i \in 1..Len(pj.deps) |-> Dependency(pj.deps[i][1], pj.deps[i][2], "dependency")]
    \o [i \in 1..Len(pj.devDeps) |->
           Dependency(pj.devDeps[i][1], pj.devDeps[i][2], "devDependency")]

\* a line of requirements.txt that is neither blank nor a comment, both
\* judged on the trimmed line
IsEntryLine(raw) == Strip(raw) # <<>> /\ Head(Strip(raw)) # "#"

EntryLines(rq) == SelectSeq(rq.lines, IsEntryLine)

\* the Dependency a requirement line stands for
ExpectedRequirement(raw) ==
    LET line == Strip(raw)
        i == FirstIndex(line, <<"=","=">>)
    IN  IF i = 0
        THEN [name |-> line, version |-> Latest, type |-> "dependency"]
        ELSE [name |-> Strip(SubSeq(line, 1, i - 1)),
              version |-> Strip(SubSeq(line, i + 2, Len(line))),
              type |-> "dependency"]

DeclaredInRequirements(rq) ==
    [i \in 1..Len(EntryLines(rq)) |-> ExpectedRequirement(EntryLines(rq)[i])]

\* what a manifest contributes when a failed manifest is skipped as a whole
FromPackageJson(pj) == IF PackageJsonReadable(pj) THEN DeclaredInPackageJson(pj) ELSE <<>>

FromRequirements(rq) ==
    IF RequirementsReadable(rq) THEN DeclaredInRequirements(rq) ELSE <<>>

\* C12: when reading package.json (resp. requirements.txt) fails, at whatever
\* point, or the manifest is absent, the returned dependency list holds no
\* entry of that manifest and holds every entry of the other manifest when
\* that one reads well.
C12_FailedManifestSkippedWhole ==
    \A k \in ProbeReturns :
        LET deps == returned[k].graph.dependencies
            pj == workdir.package_json
            rq == workdir.requirements
        IN  /\ ~PackageJsonReadable(pj) => deps = FromRequirements(rq)
            /\ ~RequirementsReadable(rq) => deps = FromPackageJson(pj)

-----------------------------------------------------------------------------
(* Properties of the dependency list: C13, C14 *)

\* the entries of the returned list that follow those of package.json
AfterPackageJson(deps, pj) ==
    SubSeq(deps, Len(FromPackageJson(pj)) + 1, Len(deps))

\* C13: for a requirements.txt that reads to its end, every line that is
\* neither blank nor a comment (after trimming) yields exactly one Dependency
\* of type "dependency", in line order: with "==" in the line the name is the
\* trimmed text before the first "==" and the version the trimmed text after
\* it, otherwise the name is the trimmed line and the version "latest";
\* blank and comment lines yield nothing.
C13_RequirementLines ==
    \A k \in ProbeReturns :
        LET pj == workdir.package_json
            rq == workdir.requirements
            got == AfterPackageJson(returned[k].graph.dependencies, pj)
            lines == EntryLines(rq)
            eq == <<"=","=">>
        IN  (RequirementsReadable(rq) /\ (pj.state = "absent" \/ PackageJsonReadable(pj)))
            => /\ Len(got) = Len(lines)
               /\ \A i \in 1..Len(lines) :
                     LET line == Strip(lines[i])
                         at == FirstIndex(line, eq)
                     IN  /\ got[i].type = "dependency"
                         /\ Contains(line, eq)
                               => /\ got[i].name = Strip(SubSeq(line, 1, at - 1))
                                  /\ got[i].version = Strip(SubSeq(line, at + 2, Len(line)))
                         /\ ~Contains(line, eq)
                               => /\ got[i].name = line
                                  /\ got[i].version = Latest

\* a requirements.txt holding " a == 1 " and a comment line was read:
\* one Dependency, (a, 1)
C13_Witness ==
    \E k \in ProbeReturns :
        /\ workdir.package_json.state = "absent"
        /\ workdir.requirements.state = "ok"
        /\ workdir.requirements.fail_at = 0
        /\ workdir.requirements.lines
              = << <<" ","a"," ","=","="," ","1"," ">>, <<"#"," ","c">> >>
        /\ returned[k].graph.dependencies
              = << [name |-> <<"a">>, version |-> <<"1">>, type |-> "dependency"] >>

\* C14: the dependency list is the production entries of package.json in
\* declared order, then its development entries in declared order, then the
\* entries of requirements.txt in line order, each manifest counted only when
\* it is readable; its length is the number of entries those manifests declare.
C14_ManifestOrder ==
    \A k \in ProbeReturns :
        LET deps == returned[k].graph.dependencies
            expected == FromPackageJson(workdir.package_json)
                        \o FromRequirements(workdir.requirements)
        IN  /\ deps = expected
            /\ Len(deps) = Len(expected)

-----------------------------------------------------------------------------
(* Properties of the shape of the CCG: C15, C16 *)

ModuleFields == {"id", "path", "classes", "functions", "components", "imports", "exports"}

\* C15: every Module of every modules map, whichever sweep stored it, has the
\* fields id, path, classes, functions, components, imports and exports, and
\* is stored under its id.
C15_ModuleSchema ==
    \A g \in Graphs :
        \A m \in DOMAIN g.graph.modules :
            /\ ModuleFields \subseteq DOMAIN g.graph.modules[m]
            /\ g.graph.modules[m].id = m

RECURSIVE SetSum(_, _)
SetSum(S, f) ==
    IF S = {} THEN 0
    ELSE LET x == CHOOSE y \in S : TRUE IN f[x] + SetSum(S \ {x}, f)

\* the log entries of the files that produced a Module
Producers(rec) == {j \in 1..Len(rec.log) : rec.log[j].status = "module"}

DistinctModuleIds(rec) ==
    \A i, j \in Producers(rec) :
        i # j => ModuleIdOf(rec.log[i].sweep, rec.log[i].path)
                   # ModuleIdOf(rec.log[j].sweep, rec.log[j].path)

\* the instance that ran the scan had run no scan before
FreshScanner(k) == \A j \in 1..(k - 1) : returned[j].inst # returned[k].inst

SymbolCount(module) ==
    Len(module.classes) + Len(module.functions)
    + (IF "components" \in DOMAIN module THEN Len(module.components) ELSE 0)

\* C16: in a scan by a fresh scanner whose module-producing files have
\* pairwise distinct module ids, the number of modules, the sum of the
\* language counters and the number of files that produced a Module are
\* equal, the node list is as long as the classes, functions and components
\* of the modules together, and edges is empty.
C16_CountsAgree ==
    \A k \in 1..Len(returned) :
        LET rec == returned[k]
            modules == rec.graph.modules
        IN  (FreshScanner(k) /\ DistinctModuleIds(rec))
            => /\ Cardinality(DOMAIN modules) = Cardinality(Producers(rec))
               /\ SetSum(Langs, rec.stats_at_return) = Cardinality(Producers(rec))
               /\ Len(rec.graph.nodes)
                     = SetSum(DOMAIN modules, [m \in DOMAIN modules |-> SymbolCount(modules[m])])
               /\ rec.graph.edges = <<>>

\* the repository with one Python file (one class, one function) and one
\* requirement was scanned by a fresh scanner: 2 nodes, 1 module, Python
\* counter 1, 1 dependency, no edge
C16_Witness ==
    \E k \in 1..Len(returned) :
        /\ FreshScanner(k)
        /\ RepoOf(returned[k].repo, probe).files = ScenarioRepoFiles
        /\ Len(returned[k].graph.nodes) = 2
        /\ Cardinality(DOMAIN returned[k].graph.modules) = 1
        /\ returned[k].stats_at_return = [EmptyStats EXCEPT !["Python"] = 1]
        /\ Len(returned[k].graph.dependencies) = 1
        /\ returned[k].graph.edges = <<>>

-----------------------------------------------------------------------------
(* Properties of the two exclusion tests: C17, C18 *)

\* the string _should_skip_file sees for a file of a repository
PathGiven(repo, path) == FullPath(repo.root, path)

\* the directories of the repository a file lies in
DirsOf(path) == {Segments(path)[i] : i \in 1..(Len(Segments(path)) - 1)}

\* C17: a file that lies, at any depth of the repository, in a directory named
\* .git, node_modules, venv, .venv, dist, build or __pycache__ is rejected by
\* _should_skip_file, also when that directory is the first segment of the
\* path given to it.
C17_SkipDirAnywhere ==
    \A k \in ProbeReturns :
        \A j \in 1..Len(returned[k].log) :
            (DirsOf(returned[k].log[j].path) \cap SkipDirNames # {})
            => /\ _should_skip_file(PathGiven(RepoOf(0, probe), returned[k].log[j].path))
               /\ returned[k].log[j].status = "skipped"

\* C18: an accepted file whose name ends with ".d.ts", whatever stands before
\* that suffix, yields no Module, no Node and no TypeScript count.
C18_DeclarationFilesExcluded ==
    \A k \in ProbeReturns :
        LET repo == RepoOf(0, probe) IN
        (/\ EndsWith(probe.path, <<".","d",".","t","s">>)
         /\ ~_should_skip_file(PathGiven(repo, probe.path)))
        => /\ DOMAIN returned[k].graph.modules = {}
           /\ returned[k].graph.nodes = <<>>
           /\ returned[k].stats_at_return["TypeScript"] = 0

-----------------------------------------------------------------------------
(* Properties of the Python extractor and of the node list: C19, C20 *)

NamesIn(nodes) == [i \in 1..Len(nodes) |-> nodes[i].name]

\* C19: for a Python file that is read and parsed, the Module's classes hold
\* one Node per class definition and its functions one Node per function
\* definition, plain or async, at any nesting depth.
C19_EveryDefinitionCollected ==
    \A k \in ProbeReturns :
        (/\ EndsWith(probe.path, Ext("py"))
         /\ probe.read = "ok"
         /\ probe.syntax_ok)
        => /\ ModuleIdPy(probe.path) \in DOMAIN returned[k].graph.modules
           /\ LET module == returned[k].graph.modules[ModuleIdPy(probe.path)] IN
              \A name \in PyNames :
                 /\ CountIn(NamesIn(module.classes), name)
                       = CountDefs(probe.tree, "ClassDef", name)
                 /\ CountIn(NamesIn(module.functions), name)
                       = CountDefs(probe.tree, "FunctionDef", name)
                         + CountDefs(probe.tree, "AsyncFunctionDef", name)

SweepRank(sw) == CHOOSE i \in 1..Len(Sweeps) : Sweeps[i] = sw

\* files are handled sweep after sweep: .py, .js, .jsx, .ts, .tsx
LogInSweepOrder(log) ==
    \A i, j \in 1..Len(log) :
        i < j => SweepRank(log[i].sweep) <= SweepRank(log[j].sweep)

\* the block of a Module: its classes, then its functions, then its components
BlockOf(module) ==
    module.classes \o module.functions
    \o (IF "components" \in DOMAIN module THEN module.components ELSE <<>>)

\* handling a file appends the block of its Module to the node list, or
\* leaves the list as it is when the file gives no Module
StepAppendsBlock ==
    \A s \in Slots :
        StepOf(s)
        => LET sw == scan[s].pc
               file == CurFile(scan[s])
               repo == RepoOf(scan[s].repo, probe)
           IN  /\ scan'[s].graph.edges = scan[s].graph.edges
               /\ IF Accepted(sw, repo, file) /\ Yields(sw, file)
                  THEN scan'[s].graph.nodes
                          = scan[s].graph.nodes
                            \o BlockOf(scan'[s].graph.modules[ModuleIdOf(sw, file.path)])
                  ELSE scan'[s].graph.nodes = scan[s].graph.nodes

\* C20: the node list is built by appending, file after file in the order
\* Python, .js, .jsx, .ts, .tsx, the block of each extracted file (classes,
\* functions, components); nothing is ever inserted, removed or reordered
\* during a scan.
C20_NodesAppendedInOrder ==
    /\ [](\A s \in Slots : LogInSweepOrder(scan[s].log))
    /\ [](\A k \in 1..Len(returned) : LogInSweepOrder(returned[k].log))
    /\ [][StepAppendsBlock]_vars

\* the repository with an extractable file in each of the five sweeps was
\* scanned: seven Nodes, block after block
C20_Witness ==
    \E k \in 1..Len(returned) :
        /\ RepoOf(returned[k].repo, probe).files = FaultyRepoFiles
        /\ [i \in 1..Len(returned[k].graph.nodes) |->
               <<returned[k].graph.nodes[i].module, returned[k].graph.nodes[i].type>>]
           = << << <<"a">>, "class" >>, << <<"a">>, "function" >>,
                << <<"b">>, "function" >>,
                << <<"c","x">>, "function" >>, << <<"c","x">>, "component" >>,
                << <<"g">>, "class" >>,
                << <<"v","x">>, "component" >> >>

-----------------------------------------------------------------------------
(* Properties of files that share a module id: C21 *)

\* the file of a repository that a log entry is about
FileAt(repo, path) == CHOOSE f \in Range(repo.files) : f.path = path

\* the Module the extractor gave for the file of log entry j of a scan
DataOf(rec, j) ==
    LET repo == RepoOf(rec.repo, probe) IN
    FileOutcome(rec.log[j].sweep, repo, hashSeed, FileAt(repo, rec.log[j].path)).data

IdAt(rec, j) == ModuleIdOf(rec.log[j].sweep, rec.log[j].path)

\* C21: when two extracted files of one scan have the same module id,
\* modules[id] is the Module of the file handled later, the map has one entry
\* per distinct id, the Nodes of both files are in the node list, and both
\* files incremented their language counters.
C21_LastWriteWins ==
    \A k \in 1..Len(returned) :
        LET rec == returned[k]
            modules == rec.graph.modules
            P == Producers(rec)
        IN  /\ \A i, j \in P :
                  (i < j /\ IdAt(rec, i) = IdAt(rec, j))
                  => /\ (\A h \in P : h > j => IdAt(rec, h) # IdAt(rec, j))
                        => modules[IdAt(rec, j)] = DataOf(rec, j)
                     /\ \A n \in Range(BlockOf(DataOf(rec, i))) \cup Range(BlockOf(DataOf(rec, j))) :
                            CountIn(rec.graph.nodes, n) >= 1
            /\ Cardinality(DOMAIN modules) = Cardinality({IdAt(rec, j) : j \in P})
            /\ Len(rec.graph.nodes)
                  = SetSum(P, [j \in P |-> Len(BlockOf(DataOf(rec, j)))])
            /\ FreshScanner(k)
               => \A l \in Langs :
                     rec.stats_at_return[l]
                        = Cardinality({j \in P : LangOf(rec.log[j].sweep) = l})

\* the repository whose a.py, a.js and a.ts all have module id "a" was scanned
\* by a fresh scanner: one Module, that of a.ts, three Nodes, each counter 1
C21_Witness ==
    \E k \in 1..Len(returned) :
        /\ FreshScanner(k)
        /\ RepoOf(returned[k].repo, probe).files = MixedRepoFiles
        /\ DOMAIN returned[k].graph.modules = { <<"a">> }
        /\ returned[k].graph.modules[<<"a">>].path = <<"a",".","t","s">>
        /\ Len(returned[k].graph.nodes) = 3
        /\ returned[k].stats_at_return = [l \in Langs |-> 1]

-----------------------------------------------------------------------------
(* Properties of the matching of exclusion names: C22, C23 *)

Git == <<".","g","i","t">>

\* the exclusion names other than the version-control one
OtherSkipNames == SkipDirNames \ {Git}

\* C22: a path that holds ".git" only inside a longer segment, and the
\* characters of no other exclusion name, is not rejected by
\* _should_skip_file; a path that contains "/.git/" or ends in "/.git" is
\* rejected.
C22_GitWholeSegment ==
    call.made
    => LET p == call.path_str
           segs == Range(Segments(p))
       IN  /\ (/\ Contains(p, Git)
               /\ Git \notin segs
               /\ \A n \in OtherSkipNames : ~Contains(p, n))
              => ~call.result
           /\ (Contains(p, <<"/">> \o Git \o <<"/">>) \/ EndsWith(p, <<"/">> \o Git))
              => call.result

\* _should_skip_file was applied to x/.github/a.git.py and returned False
C22_Witness ==
    /\ call.made
    /\ call.path_str = <<"x","/",".","g","i","t","h","u","b","/","a",".","g","i","t",".","p","y">>
    /\ ~call.result

\* the names matched as plain substrings, and those matched between slashes
SubstringNames ==
    { <<"n","o","d","e","_","m","o","d","u","l","e","s">>,
      <<"_","_","p","y","c","a","c","h","e","_","_">> }

SlashNames == OtherSkipNames \ SubstringNames

\* the segments of a path that are neither its first nor its last
Inner(p) == {Segments(p)[i] : i \in 2..(Len(Segments(p)) - 1)}

\* C23 as stated: a path whose text contains node_modules, venv, .venv, dist,
\* build or __pycache__, also inside a longer name, is rejected.
C23_SubstringOfName ==
    call.made
    => ((\E n \in OtherSkipNames : Contains(call.path_str, n)) => call.result)

\* C23 amended: node_modules and __pycache__ reject a path wherever their
\* characters occur; venv, .venv, dist and build reject it only as a whole
\* segment that is neither the first nor the last of the path; a path without
\* any of these, and without a .git segment after the first, is not rejected.
C23_SlashBoundedNames ==
    call.made
    => LET p == call.path_str
           segs == Segments(p)
       IN  call.result
           <=> \/ \E n \in SubstringNames : Contains(p, n)
               \/ \E n \in SlashNames : n \in Inner(p)
               \/ Git \in Inner(p)
               \/ (Len(segs) >= 2 /\ segs[Len(segs)] = Git)

\* _should_skip_file was applied to rebuild/myvenv/a.py and returned False
C23_Witness ==
    /\ call.made
    /\ call.path_str = <<"r","e","b","u","i","l","d","/","m","y","v","e","n","v","/","a",".","p","y">>
    /\ ~call.result

-----------------------------------------------------------------------------
(* Properties of the component lists: C24 *)

\* const N: React.FC ... : the forms of the type-annotation pattern
TypeAnnotationForms == {"FCArrow", "FCArrowExpr"}

\* const N = ... => { : the forms of the arrow-block component pattern
ArrowBlockComponentForms ==
    {"ArrowParenBlock", "ArrowBareBlock", "ArrowDefaultBlock", "FCArrow"}

\* C24: the components of a TypeScript Module are the uppercase names found
\* by the type-annotation pattern or by the arrow-block pattern, each once;
\* its functions, and the function Nodes of the node list, stay one per
\* declaration found; the components of a JavaScript Module are one per
\* declaration found, repeated names included.
C24_TsComponentsAreASet ==
    \A k \in ProbeReturns :
        JsTsProbe
        => LET sw == SweepOfPath(probe.path)
               mid == ModuleIdOf(sw, probe.path)
               graph == returned[k].graph
           IN  mid \in DOMAIN graph.modules
               => LET module == graph.modules[mid]
                      comps == NamesIn(GetComponents(module))
                  IN  /\ \A n \in Range(Names) :
                            /\ CountIn(NamesIn(module.functions), n)
                                  = Declared(sw, probe, "function", n)
                            /\ CountIn(graph.nodes, Node(mid, "function", n))
                                  = Declared(sw, probe, "function", n)
                      /\ IF sw \in {"ts", "tsx"}
                         THEN /\ Range(comps)
                                   = {n \in Range(Names) :
                                        /\ IsUpperName(n)
                                        /\ CountForms(probe.decls,
                                                      TypeAnnotationForms
                                                         \cup ArrowBlockComponentForms,
                                                      n) > 0}
                              /\ Len(comps) = Cardinality(Range(comps))
                         ELSE \A n \in Range(Names) :
                                 CountIn(comps, n)
                                    = (IF IsUpperName(n)
                                       THEN CountForms(probe.decls, ArrowBlockComponentForms, n)
                                       ELSE 0)

\* a TypeScript file declaring App once with a React.FC annotation and once
\* as a plain arrow function was scanned: one component App from the two
\* finds, next to a function Node with the same id
C24_Witness ==
    \E k \in ProbeReturns :
        /\ SweepOfPath(probe.path) \in {"ts", "tsx"}
        /\ CountForms(probe.decls, TypeAnnotationForms, App) = 1
        /\ CountForms(probe.decls, {"ArrowParenBlock"}, App) = 1
        /\ NamesIn(returned[k].graph.modules[<<"a">>].components) = <<App>>
        /\ CountIn(returned[k].graph.nodes, Node(<<"a">>, "function", App)) = 1
        /\ CountIn(returned[k].graph.nodes, Node(<<"a">>, "component", App)) = 1

-----------------------------------------------------------------------------
(* Properties of declarations listed twice: C26 *)

\* const N = (...) => { : parenthesised parameters, without and with a
\* default value
ParenArrowBlockForms == {"ArrowParenBlock", "ArrowDefaultBlock"}

BothNodes(graph, mid, name) ==
    /\ CountIn(graph.nodes, Node(mid, "function", name)) >= 1
    /\ CountIn(graph.nodes, Node(mid, "component", name)) >= 1
    /\ CountIn(graph.modules[mid].functions, Node(mid, "function", name)) >= 1
    /\ CountIn(GetComponents(graph.modules[mid]), Node(mid, "component", name)) >= 1

-----------------------------------------------------------------------------
(* Properties of interleaved scans: C25 *)

\* the files build_code_context_graph visits in a repository, loop after loop
RECURSIVE VisitsFrom(_, _)
VisitsFrom(repo, i) ==
    IF i > Len(Sweeps) THEN <<>>
    ELSE [j \in 1..Len(rglob(repo, Sweeps[i])) |->
             [sweep |-> Sweeps[i], path |-> rglob(repo, Sweeps[i])[j].path]]
         \o VisitsFrom(repo, i + 1)

\* the blocks of the first j log entries of a scan, one after the other
RECURSIVE BlocksUpTo(_, _)
BlocksUpTo(rec, j) ==
    IF j = 0 THEN <<>>
    ELSE BlocksUpTo(rec, j - 1)
         \o (IF rec.log[j].status = "module" THEN BlockOf(DataOf(rec, j)) ELSE <<>>)

\* the nodes, modules, edges and dependencies of a returned CCG are those
\* of its own repository scanned alone
AsSoloScan(rec) ==
    LET repo == RepoOf(rec.repo, probe)
        P == Producers(rec)
    IN  /\ [j \in 1..Len(rec.log) |-> [sweep |-> rec.log[j].sweep, path |-> rec.log[j].path]]
              = VisitsFrom(repo, 1)
        /\ rec.graph.nodes = BlocksUpTo(rec, Len(rec.log))
        /\ DOMAIN rec.graph.modules = {IdAt(rec, j) : j \in P}
        /\ \A j \in P :
              (\A h \in P : h > j => IdAt(rec, h) # IdAt(rec, j))
              => rec.graph.modules[IdAt(rec, j)] = DataOf(rec, j)
        /\ rec.graph.edges = <<>>
        /\ rec.graph.dependencies = _extract_dependencies(repo)

\* C25: when scans of distinct repositories run interleaved, file by file, on
\* one scanner instance, the nodes, modules, edges and dependencies of each
\* returned CCG equal those of a scan of its own repository alone.
C25_InterleavedScansIsolated ==
    \A k \in 1..Len(returned) : AsSoloScan(returned[k])

\* two scans of distinct repositories on one instance have returned, and when
\* the first returned the instance had already counted files of the second
C25_Witness ==
    /\ Len(returned) = 2
    /\ returned[1].inst = returned[2].inst
    /\ returned[1].repo # returned[2].repo
    /\ returned[1].graph.nodes # <<>>
    /\ returned[2].graph.nodes # <<>>
    /\ SetSum(Langs, returned[1].stats_at_return) > Cardinality(Producers(returned[1]))

-----------------------------------------------------------------------------
(* Properties of every Node: C27 *)

WellFormedNode(graph, node) ==
    /\ node.type \in Types
    /\ node.id = node.module \o <<".">> \o node.name
    /\ node.module \in DOMAIN graph.modules

\* the Nodes a step of slot s appends to its node list
AppendedBy(s) ==
    SubSeq(scan'[s].graph.nodes, Len(scan[s].graph.nodes) + 1, Len(scan'[s].graph.nodes))

PythonStepAddsNoComponent ==
    \A s \in Slots :
        (StepOf(s) /\ scan[s].pc = "py")
        => \A n \in Range(AppendedBy(s)) : n.type \in {"class", "function"}

\* C27: in every state of a scan and in every returned CCG, every Node has a
\* type among class, function and component, the id "<module>.<name>", and a
\* module that is a key of modules; the Python loop appends no component.
C27_NodesWellFormed ==
    /\ [](\A g \in Graphs :
             \A i \in 1..Len(g.graph.nodes) : WellFormedNode(g.graph, g.graph.nodes[i]))
    /\ [][PythonStepAddsNoComponent]_vars

\* a scan is under way that has appended Nodes of the three types, from
\* Python and from other files
C27_Witness ==
    \E s \in Slots :
        /\ scan[s].active
        /\ {scan[s].graph.nodes[i].type : i \in 1..Len(scan[s].graph.nodes)} = Types
        /\ \E j \in 1..Len(scan[s].log) :
              scan[s].log[j].sweep = "py" /\ scan[s].log[j].status = "module"
        /\ \A i \in 1..Len(scan[s].graph.nodes) :
              WellFormedNode(scan[s].graph, scan[s].graph.nodes[i])

-----------------------------------------------------------------------------
(* Properties of the module ids and of the place of the repository: C28, C29 *)

\* a path without the extension of the loop that picked it up, "/" as "_"
PathWithoutExtension(sw, path) ==
    Replace(SubSeq(path, 1, Len(path) - Len(Ext(sw))), <<"/">>, <<"_">>)

\* C28: the Module of an extracted file is registered under its
\* repository-relative path with "/" replaced by "_" and its own extension
\* (.py, .js, .jsx, .ts or .tsx) removed, nothing else being altered.
C28_ModuleIdIsPathWithoutExtension ==
    \A k \in 1..Len(returned) :
        \A j \in Producers(returned[k]) :
            LET entry == returned[k].log[j]
                id == PathWithoutExtension(entry.sweep, entry.path)
                modules == returned[k].graph.modules
            IN  /\ id \in DOMAIN modules
                /\ modules[id].id = id
                /\ modules[id].path = entry.path

\* C29: whether a file is skipped, and so the modules, nodes and counters of
\* the scan, depend only on the path of the file relative to the root: the
\* same file placed under any other root has the same outcome.
C29_PlacementIndependent ==
    \A k \in ProbeReturns :
        \A j \in 1..Len(returned[k].log) :
            \A root \in Roots :
                LET moved == [RepoOf(0, probe) EXCEPT !.root = root]
                    there == FileOutcome(returned[k].log[j].sweep, moved, hashSeed, probe)
                IN  /\ there.status = returned[k].log[j].status
                    /\ there.status = "module"
                       => /\ there.data.id \in DOMAIN returned[k].graph.modules
                          /\ returned[k].graph.nodes = BlockOf(there.data)

-----------------------------------------------------------------------------
(* Properties of the workflow: C30 *)

\* the four output files
OutputFiles == {"docs.md", "diagram.mmd", "code_graph.json", "file_tree.json"}

\* the run that follows run i for the same URL
NextRunFor(i) ==
    LET later == {j \in (i + 1)..Len(wf.runs) : wf.runs[j].url = wf.runs[i].url}
    IN  CHOOSE j \in later : \A h \in later : j <= h

ReuseOnlyWithGit ==
    \A i \in 1..Len(wf.runs) :
        wf.runs[i].clone = "reused" <=> ".git" \in wf.runs[i].held

AfterCompletedNoReuse ==
    \A i \in 1..Len(wf.runs) :
        (/\ wf.runs[i].completed
         /\ \E j \in (i + 1)..Len(wf.runs) : wf.runs[j].url = wf.runs[i].url)
        => /\ wf.runs[NextRunFor(i)].clone \in {"cloned", "failed"}
           /\ OutputFiles \subseteq wf.runs[NextRunFor(i)].held
           /\ ".git" \notin wf.runs[NextRunFor(i)].held

\* a run is completed by the cleanup step only, with the four files saved,
\* and the step leaves exactly those files in the directory
CompletesByCleanup ==
    (/\ wf.runs # <<>>
     /\ Len(wf'.runs) = Len(wf.runs)
     /\ wf'.runs[Len(wf.runs)].completed
     /\ ~wf.runs[Len(wf.runs)].completed)
    => /\ wf.pc = "cleanup"
       /\ OutputFiles \subseteq wf.dir[wf.url]
       /\ wf'.dir[wf.url] = OutputFiles
       /\ \A u \in Urls \ {wf.url} : wf'.dir[u] = wf.dir[u]

\* the cleanup step is not taken before the four files are in the directory
CleanupAfterSaves == wf.pc = "cleanup" => OutputFiles \subseteq wf.dir[wf.url]

====
